---- MODULE Spec2Model ----
(***************************************************************************)
(* Model of the colour-math and palette-generation layer of studiotoolkit: *)
(* ImageGenerator.ts, RadiumGenerator.ts, select60-30-10.ts,               *)
(* PerceptualGenerator.ts, DataVisualsGenerator.ts and the algorithmic     *)
(* generator.                                                              *)
(*                                                                         *)
(* Numbers.  The source computes in IEEE doubles.  The model computes in   *)
(* fixed point: OKLab/OKLCH coordinates, ramp positions and sRGB channels  *)
(* in units of 1/LabScale, linear-light channel values in units of         *)
(* 1/LinScale, hue in units of 1/HueScale degree.  A value that the source *)
(* obtains as 0/0 is the model value NaN, and NaN propagates through       *)
(* arithmetic as in JavaScript.  Transcendental functions are tabulated:   *)
(* the sRGB transfer curve at the 256 byte levels (and the 255 rounding    *)
(* thresholds between them), cosine at whole degrees, and rgbToOklab at    *)
(* the colours that the modelled inputs are drawn from.                    *)
(***************************************************************************)
EXTENDS Integers, Sequences, FiniteSets, TLC

(***************************************************************************)
(* Bounds of the model                                                     *)
(***************************************************************************)
MaxPixels == 2
MaxK == 2
MaxColors == 3
MaxKeys == 2
MaxCount == 3
MaxSlots == 5
MaxCalls == 2
MaxEvents == 3
MaxMouse == 4

(***************************************************************************)
(* Fixed-point representation                                              *)
(***************************************************************************)
LabScale == 10 ^ 4
LinScale == 10 ^ 6
HueScale == 10 ^ 2
Dist2Scale == LabScale * LabScale

\* the value of 0/0: a reserved integer outside the range of every number the
\* model computes; the operators that can receive it test for it first
NaN == -(2 ^ 30)

Max(a, b) == IF a >= b THEN a ELSE b
Min(a, b) == IF a <= b THEN a ELSE b
Abs(a) == IF a < 0 THEN -a ELSE a

\* floor(a * b / s) without leaving 32-bit range for |a| < 2^31, |b| * s < 2^31
MulDiv(a, b, s) == (a \div s) * b + ((a % s) * b) \div s

\* Math.round: nearest integer, ties towards +infinity; num/den with den > 0
RoundDiv(num, den) == (2 * num + den) \div (2 * den)

RECURSIVE SqrtSearch(_, _, _)
SqrtSearch(n, lo, hi) ==
  IF hi - lo <= 1 THEN lo
  ELSE LET mid == (lo + hi) \div 2
       IN IF mid * mid <= n THEN SqrtSearch(n, mid, hi) ELSE SqrtSearch(n, lo, mid)

\* Math.sqrt on integers: floor of the square root, n < 46340^2
ISqrt(n) == IF n <= 0 THEN 0 ELSE SqrtSearch(n, 0, 46340)

RECURSIVE CbrtSearch(_, _, _)
CbrtSearch(n, lo, hi) ==
  IF hi - lo <= 1 THEN lo
  ELSE LET mid == (lo + hi) \div 2
       IN IF mid * mid * mid <= n THEN CbrtSearch(n, mid, hi) ELSE CbrtSearch(n, lo, mid)

\* Math.cbrt on integers (odd function), |n| < 1290^3
ICbrt(n) == IF n >= 0 THEN CbrtSearch(n, 0, 1290) ELSE -CbrtSearch(-n, 0, 1290)

\* the sequence f with every element evaluated
Eager(f) == SubSeq(f, 1, Len(f))

\* Body at the value of v, with v evaluated once
With(v, Body(_)) == CHOOSE r \in {Body(x) : x \in {v}} : TRUE

RECURSIVE SumSeq(_)
SumSeq(s) == IF s = <<>> THEN 0 ELSE Head(s) + SumSeq(Tail(s))

\* Array.prototype.filter with a predicate given as the set of kept indices
RECURSIVE FilterIdx(_, _, _)
FilterIdx(s, keep, i) ==
  IF i > Len(s) THEN <<>>
  ELSE (IF i \in keep THEN <<s[i]>> ELSE <<>>) \o FilterIdx(s, keep, i + 1)

RemoveAt(s, i) == SubSeq(s, 1, i - 1) \o SubSeq(s, i + 1, Len(s))

SetMax(S) == CHOOSE m \in S : \A e \in S : m >= e
SetMin(S) == CHOOSE m \in S : \A e \in S : m <= e

Keys(s) == {s[i].key : i \in 1..Len(s)}

\* the first index of s whose key is k
FirstWithKey(s, k) == SetMin({i \in 1..Len(s) : s[i].key = k})

\* Array.prototype.sort (stable since ES2019) on records with an integer
\* field key, ascending: repeatedly takes the first element of least key
RECURSIVE SortAsc(_)
SortAsc(s) ==
  IF s = <<>> THEN <<>>
  ELSE LET i == FirstWithKey(s, SetMin(Keys(s)))
       IN <<s[i]>> \o SortAsc(RemoveAt(s, i))

\* the same, descending
RECURSIVE SortDesc(_)
SortDesc(s) ==
  IF s = <<>> THEN <<>>
  ELSE LET i == FirstWithKey(s, SetMax(Keys(s)))
       IN <<s[i]>> \o SortDesc(RemoveAt(s, i))

(***************************************************************************)
(* Tables                                                                  *)
(***************************************************************************)
\* linearize((j + 0.5) / 255) for j = 0..254: Math.round(delinearize(x) * 255)
\* is the number of thresholds not above x
ByteThreshold ==
  <<152, 455, 759, 1062, 1366, 1669, 1973, 2276, 2580, 2884, 3188, 3509,
    3848, 4206, 4582, 4977, 5391, 5825, 6278, 6751, 7245, 7759, 8293, 8848,
    9425, 10023, 10642, 11283, 11947, 12632, 13340, 14070, 14823, 15600, 16399, 17222,
    18068, 18938, 19832, 20751, 21693, 22661, 23652, 24669, 25711, 26778, 27870, 28988,
    30132, 31301, 32497, 33719, 34967, 36242, 37544, 38872, 40227, 41610, 43020, 44457,
    45922, 47415, 48936, 50484, 52062, 53667, 55301, 56963, 58655, 60375, 62124, 63903,
    65711, 67548, 69415, 71312, 73239, 75196, 77183, 79200, 81247, 83326, 85434, 87574,
    89745, 91946, 94179, 96443, 98739, 101066, 103425, 105816, 108238, 110693, 113180, 115699,
    118250, 120835, 123451, 126101, 128783, 131498, 134247, 137028, 139843, 142692, 145574, 148489,
    151439, 154422, 157439, 160491, 163576, 166696, 169851, 173040, 176264, 179522, 182815, 186143,
    189507, 192905, 196339, 199808, 203313, 206853, 210429, 214041, 217689, 221373, 225092, 228848,
    232641, 236470, 240335, 244237, 248175, 252151, 256163, 260212, 264298, 268422, 272583, 276781,
    281017, 285290, 289601, 293950, 298336, 302761, 307223, 311724, 316263, 320840, 325456, 330110,
    334803, 339534, 344304, 349113, 353961, 358849, 363775, 368740, 373745, 378789, 383873, 388996,
    394159, 399362, 404604, 409886, 415209, 420571, 425974, 431417, 436900, 442424, 447988, 453593,
    459239, 464925, 470653, 476421, 482230, 488080, 493972, 499905, 505879, 511894, 517951, 524050,
    530191, 536373, 542597, 548863, 555171, 561521, 567913, 574347, 580824, 587343, 593905, 600509,
    607156, 613846, 620578, 627353, 634172, 641033, 647937, 654885, 661876, 668910, 675987, 683108,
    690273, 697481, 704733, 712029, 719369, 726752, 734180, 741652, 749168, 756728, 764332, 771981,
    779674, 787412, 795195, 803022, 810894, 818811, 826772, 834779, 842830, 850927, 859069, 867256,
    875489, 883767, 892091, 900460, 908874, 917335, 925841, 934393, 942990, 951634, 960324, 969060,
    977842, 986671, 995545>>

\* linearize(j / 255) for the byte levels j = 0..255
LinByte ==
  <<0, 304, 607, 911, 1214, 1518, 1821, 2125, 2428, 2732, 3035, 3347,
    3677, 4025, 4391, 4777, 5182, 5605, 6049, 6512, 6995, 7499, 8023, 8568,
    9134, 9721, 10330, 10960, 11612, 12286, 12983, 13702, 14444, 15209, 15996, 16807,
    17642, 18500, 19382, 20289, 21219, 22174, 23153, 24158, 25187, 26241, 27321, 28426,
    29557, 30713, 31896, 33105, 34340, 35601, 36889, 38204, 39546, 40915, 42311, 43735,
    45186, 46665, 48172, 49707, 51269, 52861, 54480, 56128, 57805, 59511, 61246, 63010,
    64803, 66626, 68478, 70360, 72272, 74214, 76185, 78187, 80220, 82283, 84376, 86500,
    88656, 90842, 93059, 95307, 97587, 99899, 102242, 104616, 107023, 109462, 111932, 114435,
    116971, 119538, 122139, 124772, 127438, 130136, 132868, 135633, 138432, 141263, 144128, 147027,
    149960, 152926, 155926, 158961, 162029, 165132, 168269, 171441, 174647, 177888, 181164, 184475,
    187821, 191202, 194618, 198069, 201556, 205079, 208637, 212231, 215861, 219526, 223228, 226966,
    230740, 234551, 238398, 242281, 246201, 250158, 254152, 258183, 262251, 266356, 270498, 274677,
    278894, 283149, 287441, 291771, 296138, 300544, 304987, 309469, 313989, 318547, 323143, 327778,
    332452, 337164, 341914, 346704, 351533, 356400, 361307, 366253, 371238, 376262, 381326, 386429,
    391572, 396755, 401978, 407240, 412543, 417885, 423268, 428690, 434154, 439657, 445201, 450786,
    456411, 462077, 467784, 473531, 479320, 485150, 491021, 496933, 502886, 508881, 514918, 520996,
    527115, 533276, 539479, 545724, 552011, 558340, 564712, 571125, 577580, 584078, 590619, 597202,
    603827, 610496, 617207, 623960, 630757, 637597, 644480, 651406, 658375, 665387, 672443, 679542,
    686685, 693872, 701102, 708376, 715694, 723055, 730461, 737910, 745404, 752942, 760525, 768151,
    775822, 783538, 791298, 799103, 806952, 814847, 822786, 830770, 838799, 846873, 854993, 863157,
    871367, 879622, 887923, 896269, 904661, 913099, 921582, 930111, 938686, 947307, 955973, 964686,
    973445, 982251, 991102, 1000000>>

\* cos(d degrees) for d = 0..90
CosDeg ==
  <<10000, 9998, 9994, 9986, 9976, 9962, 9945, 9925, 9903, 9877, 9848, 9816,
    9781, 9744, 9703, 9659, 9613, 9563, 9511, 9455, 9397, 9336, 9272, 9205,
    9135, 9063, 8988, 8910, 8829, 8746, 8660, 8572, 8480, 8387, 8290, 8192,
    8090, 7986, 7880, 7771, 7660, 7547, 7431, 7314, 7193, 7071, 6947, 6820,
    6691, 6561, 6428, 6293, 6157, 6018, 5878, 5736, 5592, 5446, 5299, 5150,
    5000, 4848, 4695, 4540, 4384, 4226, 4067, 3907, 3746, 3584, 3420, 3256,
    3090, 2924, 2756, 2588, 2419, 2250, 2079, 1908, 1736, 1564, 1392, 1219,
    1045, 872, 698, 523, 349, 175, 0>>

\* rgbToOklab at the colours the modelled inputs are drawn from, computed with
\* the source's formula and rounded to 1/LabScale
OklabOfRgb ==
  (<<230, 57, 70>> :> [L |-> 6122, a |-> 1927, b |-> 788]) @@
  (<<228, 60, 72>> :> [L |-> 6117, a |-> 1887, b |-> 764]) @@
  (<<42, 157, 143>> :> [L |-> 6304, a |-> -1012, b |-> -54]) @@
  (<<150, 130, 120>> :> [L |-> 6220, a |-> 191, b |-> 214]) @@
  (<<255, 255, 238>> :> [L |-> 9955, a |-> -64, b |-> 213]) @@
  (<<34, 34, 17>> :> [L |-> 2468, a |-> -93, b |-> 280]) @@
  (<<238, 85, 51>> :> [L |-> 6511, a |-> 1614, b |-> 1090]) @@
  (<<187, 34, 0>> :> [L |-> 5115, a |-> 1612, b |-> 1028]) @@
  (<<68, 119, 34>> :> [L |-> 5148, a |-> -912, b |-> 902]) @@
  (<<255, 221, 102>> :> [L |-> 9037, a |-> -85, b |-> 1416]) @@
  (<<255, 0, 0>> :> [L |-> 6280, a |-> 2249, b |-> 1258]) @@
  (<<52, 152, 219>> :> [L |-> 6531, a |-> -618, b |-> -1197]) @@
  (<<255, 255, 255>> :> [L |-> 10000, a |-> 0, b |-> 0]) @@
  (<<0, 0, 255>> :> [L |-> 4520, a |-> -325, b |-> -3115]) @@
  (<<0, 255, 0>> :> [L |-> 8664, a |-> -2339, b |-> 1795]) @@
  (<<0, 101, 255>> :> [L |-> 5616, a |-> -381, b |-> -2389])

HexDigits == <<"0", "1", "2", "3", "4", "5", "6", "7", "8", "9", "a", "b", "c", "d", "e", "f">>

(***************************************************************************)
(* ImageGenerator.ts: colour math                                          *)
(***************************************************************************)
\* An RGB channel c of the source (a double in [0,1]) is the integer
\* c * 255 * ChanPerByte.
ChanPerByte == 10 ^ 3
ChanOne == 255 * ChanPerByte

ImgClamp01(v) == Max(0, Min(LabScale, v))

ImgRgbToOklab(rgb) ==
  OklabOfRgb[<<rgb.r \div ChanPerByte, rgb.g \div ChanPerByte, rgb.b \div ChanPerByte>>]

Cube(l) == MulDiv((l * l) \div (Dist2Scale \div LinScale), l, LabScale)

\* the three arguments of delinearize in oklabToRgb, in units of 1/LinScale
LinearRgb(lab) ==
  LET l == (LabScale * lab.L + 3963 * lab.a + 2158 * lab.b) \div LabScale
      m == (LabScale * lab.L - 1056 * lab.a - 639 * lab.b) \div LabScale
      s == (LabScale * lab.L - 895 * lab.a - 12915 * lab.b) \div LabScale
      l3 == Cube(l)
      m3 == Cube(m)
      s3 == Cube(s)
  IN [r |-> MulDiv(l3, 40767, LabScale) - MulDiv(m3, 33077, LabScale) + MulDiv(s3, 2310, LabScale),
      g |-> MulDiv(m3, 26098, LabScale) - MulDiv(l3, 12684, LabScale) - MulDiv(s3, 3413, LabScale),
      b |-> MulDiv(s3, 17076, LabScale) - MulDiv(l3, 42, LabScale) - MulDiv(m3, 7034, LabScale)]

\* Math.round(clamp01(delinearize(x)) * 255) for x in units of 1/LinScale
EncodeByte(x) == Cardinality({j \in 1..255 : ByteThreshold[j] <= x})

\* oklabToRgb: the clamped, gamma-encoded channels
ImgOklabToRgb(lab) ==
  LET lin == LinearRgb(lab)
  IN [r |-> EncodeByte(lin.r) * ChanPerByte,
      g |-> EncodeByte(lin.g) * ChanPerByte,
      b |-> EncodeByte(lin.b) * ChanPerByte]

LabDist2(p, q) ==
  (p.L - q.L) * (p.L - q.L) + (p.a - q.a) * (p.a - q.a) + (p.b - q.b) * (p.b - q.b)

LabChroma2(lab) == lab.a * lab.a + lab.b * lab.b
LabChroma(lab) == ISqrt(LabChroma2(lab))

\* Number.prototype.toString(16).padStart(2, "0") of a non-negative integer
HexPad2(v) ==
  IF v < 16 THEN <<"0", HexDigits[v + 1]>>
  ELSE IF v < 256 THEN <<HexDigits[(v \div 16) + 1], HexDigits[(v % 16) + 1]>>
  ELSE <<HexDigits[(v \div 256) + 1], HexDigits[((v \div 16) % 16) + 1], HexDigits[(v % 16) + 1]>>

\* rgbToHex: "#" followed by Math.round(c * 255) of each channel in base 16
ImgRgbToHex(rgb) ==
  <<"#">> \o HexPad2(RoundDiv(rgb.r, ChanPerByte))
          \o HexPad2(RoundDiv(rgb.g, ChanPerByte))
          \o HexPad2(RoundDiv(rgb.b, ChanPerByte))

ImgLabToHex(lab) == ImgRgbToHex(ImgOklabToRgb(lab))

MapSeq(s, Op(_)) == Eager([i \in 1..Len(s) |-> Op(s[i])])

(***************************************************************************)
(* ImageGenerator.ts: padding and sampling                                 *)
(***************************************************************************)
RECURSIVE PadLabLoop(_, _, _)
PadLabLoop(result, base, k) ==
  IF Len(result) >= k THEN result
  ELSE LET t == (Len(result) * LabScale) \div k
       IN PadLabLoop(Append(result, [base EXCEPT !.L = ImgClamp01(2000 + (t * 6000) \div LabScale)]),
                     base, k)

\* padToK without the synthesised entries
padToKTruncating(labs, k) == SubSeq(labs, 1, Min(Len(labs), k))

padToK(labs, k) ==
  IF Len(labs) >= k THEN SubSeq(labs, 1, k)
  ELSE LET base == IF Len(labs) > 0 THEN labs[Len(labs)] ELSE [L |-> 5000, a |-> 0, b |-> 0]
       IN PadLabLoop(labs, base, k)

RECURSIVE PadRgbLoop(_, _)
PadRgbLoop(result, k) ==
  IF Len(result) >= k THEN result
  ELSE LET t == (Len(result) * ChanOne) \div k
       IN PadRgbLoop(Append(result, [r |-> t, g |-> t, b |-> t]), k)

padRgbToK(rgbs, k) ==
  IF Len(rgbs) >= k THEN SubSeq(rgbs, 1, k) ELSE PadRgbLoop(rgbs, k)

DefaultMaxPixels == 6000

\* the loop of samplePixels without the alpha test
RECURSIVE SampleLoopAnyAlpha(_, _, _)
SampleLoopAnyAlpha(data, i, step) ==
  IF i >= Len(data) THEN <<>>
  ELSE <<[r |-> data[i + 1] * ChanPerByte,
          g |-> data[i + 2] * ChanPerByte,
          b |-> data[i + 3] * ChanPerByte]>> \o SampleLoopAnyAlpha(data, i + 4 * step, step)

\* the loop of samplePixels from byte offset i (0-based) in strides of 4 * step
RECURSIVE SampleLoop(_, _, _)
SampleLoop(data, i, step) ==
  IF i >= Len(data) THEN <<>>
  ELSE IF data[i + 4] < 128 THEN SampleLoop(data, i + 4 * step, step)
  ELSE <<[r |-> data[i + 1] * ChanPerByte,
          g |-> data[i + 2] * ChanPerByte,
          b |-> data[i + 3] * ChanPerByte]>> \o SampleLoop(data, i + 4 * step, step)

samplePixels(data, maxPixels) ==
  LET step == Max(1, Len(data) \div (4 * maxPixels))
      rgbs == SampleLoop(data, 0, step)
  IN [rgbs |-> rgbs, labs |-> MapSeq(rgbs, ImgRgbToOklab)]

(***************************************************************************)
(* ImageGenerator.ts: 1. k-means++                                         *)
(* Math.random() is a nondeterministic choice, so kMeansCore denotes the   *)
(* set of results the calls to Math.random() can produce.                  *)
(***************************************************************************)
KMeansMaxIter == 25

\* the index sets that labs.filter(Math.random() <= rate) can keep: a pixel
\* with rate 1.0 is always kept because Math.random() < 1
SubsampleKeeps(labs) ==
  {keep \in SUBSET (1..Len(labs)) :
     \A i \in 1..Len(labs) : LabChroma2(labs[i]) >= 1500 * 1500 => i \in keep}

MinDist2(p, centroids) ==
  LET ds == {LabDist2(p, centroids[c]) : c \in 1..Len(centroids)}
  IN CHOOSE d \in ds : \A e \in ds : d <= e

\* the indices the roulette loop can leave in `chosen`: index 0 when
\* rand = 0 (or when no prefix sum reaches rand), otherwise a point at a
\* positive distance from the centroids chosen so far
SeedChoices(pool, centroids) ==
  {1} \cup {i \in 1..Len(pool) : MinDist2(pool[i], centroids) > 0}

RECURSIVE SeedExtend(_, _, _)
SeedExtend(pool, centroids, k) ==
  IF Len(centroids) >= k THEN {centroids}
  ELSE UNION {SeedExtend(pool, Append(centroids, pool[i]), k) :
                i \in SeedChoices(pool, centroids)}

KMeansSeeds(pool, k) == UNION {SeedExtend(pool, <<pool[i]>>, k) : i \in 1..Len(pool)}

\* the first centroid (in index order) at least distance from pool[i]
NearestCentroid(p, centroids, k) ==
  CHOOSE best \in 1..k :
    /\ \A ci \in 1..k : LabDist2(p, centroids[best]) <= LabDist2(p, centroids[ci])
    /\ \A ci \in 1..(best - 1) : LabDist2(p, centroids[ci]) > LabDist2(p, centroids[best])

KMeansUpdate(pool, centroids, assignments, k) ==
  [ci \in 1..k |->
     LET members == {i \in 1..Len(pool) : assignments[i] = ci}
         count == Cardinality(members)
         sel == FilterIdx(pool, members, 1)
     IN IF count > 0
        THEN [L |-> SumSeq([i \in 1..count |-> sel[i].L]) \div count,
              a |-> SumSeq([i \in 1..count |-> sel[i].a]) \div count,
              b |-> SumSeq([i \in 1..count |-> sel[i].b]) \div count]
        ELSE centroids[ci]]

RECURSIVE KMeansLoop(_, _, _, _, _, _)
KMeansLoop(pool, centroids, assignments, k, iter, maxIter) ==
  IF iter >= maxIter THEN [centroids |-> centroids, assignments |-> assignments, iters |-> iter]
  ELSE LET next == [i \in 1..Len(pool) |-> NearestCentroid(pool[i], centroids, k)]
       IN IF next = assignments
          THEN [centroids |-> centroids, assignments |-> assignments, iters |-> iter + 1]
          ELSE KMeansLoop(pool, KMeansUpdate(pool, centroids, next, k), next, k, iter + 1, maxIter)

KMeansRank(pool, run, k) ==
  LET scored == [ci \in 1..k |->
                   [key |-> Cardinality({i \in 1..Len(pool) : run.assignments[i] = ci})
                              * (LabScale + 3 * LabChroma(run.centroids[ci])),
                    lab |-> run.centroids[ci]]]
      sorted == SortDesc(scored)
  IN padToK([i \in 1..k |-> sorted[i].lab], k)

kMeansCore(labs, k, maxIter) ==
  IF Len(labs) = 0 THEN {<<>>}
  ELSE UNION {
         LET pixels == FilterIdx(labs, keep, 1)
             pool == IF Len(pixels) >= k THEN pixels ELSE labs
         IN {KMeansRank(pool,
                        KMeansLoop(pool, seeds, [i \in 1..Len(pool) |-> 1], k, 0, maxIter),
                        k) : seeds \in KMeansSeeds(pool, k)}
         : keep \in SubsampleKeeps(labs)}

(***************************************************************************)
(* ImageGenerator.ts: 2. median cut                                        *)
(***************************************************************************)
ChannelRange(pixels, ch) ==
  LET vals == {pixels[i][ch] : i \in 1..Len(pixels)}
      lo == CHOOSE v \in vals \cup {ChanOne} : \A w \in vals \cup {ChanOne} : v <= w
      hi == CHOOSE v \in vals \cup {0} : \A w \in vals \cup {0} : v >= w
  IN hi - lo

SplitAxis(pixels) ==
  LET rr == ChannelRange(pixels, "r")
      gr == ChannelRange(pixels, "g")
      br == ChannelRange(pixels, "b")
  IN IF rr >= gr /\ rr >= br THEN "r" ELSE IF gr >= br THEN "g" ELSE "b"

splitBox(box) ==
  LET axis == SplitAxis(box)
      sorted == SortAsc([i \in 1..Len(box) |-> [key |-> box[i][axis], p |-> box[i]]])
      pixels == [i \in 1..Len(box) |-> sorted[i].p]
      mid == Len(box) \div 2
  IN <<SubSeq(pixels, 1, mid), SubSeq(pixels, mid + 1, Len(pixels))>>

\* the boxes ordered by their largest channel range, widest first
SortBoxesByExtent(boxes) ==
  LET Range(b) == Max(ChannelRange(b, "r"), Max(ChannelRange(b, "g"), ChannelRange(b, "b")))
      sorted == SortDesc([i \in 1..Len(boxes) |-> [key |-> Range(boxes[i]), box |-> boxes[i]]])
  IN [i \in 1..Len(boxes) |-> sorted[i].box]

SortBoxes(boxes) ==
  LET sorted == SortDesc([i \in 1..Len(boxes) |-> [key |-> Len(boxes[i]), box |-> boxes[i]]])
  IN [i \in 1..Len(boxes) |-> sorted[i].box]

\* the while loop of medianCutAlgo; boxes are sequences of pixels
RECURSIVE MedianCutLoop(_, _)
MedianCutLoop(boxes, k) ==
  IF Len(boxes) >= k THEN boxes
  ELSE LET sorted == SortBoxes(boxes)
       IN IF Len(sorted[1]) < 2 THEN sorted
          ELSE MedianCutLoop(Tail(sorted) \o splitBox(sorted[1]), k)

BoxMean(box) ==
  LET n == Len(box)
  IN [r |-> SumSeq([i \in 1..n |-> box[i].r]) \div n,
      g |-> SumSeq([i \in 1..n |-> box[i].g]) \div n,
      b |-> SumSeq([i \in 1..n |-> box[i].b]) \div n]

medianCutAlgo(rgbs, k) ==
  IF Len(rgbs) = 0 THEN padRgbToK(<<>>, k)
  ELSE padRgbToK(MapSeq(MedianCutLoop(<<rgbs>>, k), BoxMean), k)

\* const boxes = [{ pixels: [...rgbs] }] without the spread: the first box
\* holds the argument array itself
medianCutFirstBoxShared(rgbs) == [pixels |-> rgbs, shared |-> TRUE]

\* const boxes = [{ pixels: [...rgbs] }]: the first box holds a copy
medianCutFirstBox(rgbs) == [pixels |-> rgbs, shared |-> FALSE]

\* the elements of the argument array after medianCutAlgo(rgbs, k):
\* box.pixels.sort(...) sorts in place the array of the box that is split,
\* the first split is that of the first box, and the boxes made by a split
\* hold slices
RgbsAfterMedianCut(rgbs, k) ==
  LET first == medianCutFirstBox(rgbs)
  IN IF first.shared /\ 1 < k /\ Len(first.pixels) >= 2
     THEN splitBox(first.pixels)[1] \o splitBox(first.pixels)[2]
     ELSE rgbs

(***************************************************************************)
(* ImageGenerator.ts: 3. dominant                                          *)
(***************************************************************************)
\* Math.round(p * 7) / 7 of a channel
Quantize7(c) == (RoundDiv(c * 7, ChanOne) * ChanOne) \div 7

QuantizeRgb(p) == [r |-> Quantize7(p.r), g |-> Quantize7(p.g), b |-> Quantize7(p.b)]

\* the Map of dominantAlgo in insertion order, as a sequence of entries
RECURSIVE DominantMap(_, _)
DominantMap(rgbs, map) ==
  IF rgbs = <<>> THEN map
  ELSE LET q == QuantizeRgb(Head(rgbs))
           hit == {i \in 1..Len(map) : map[i].rgb = q}
       IN IF hit # {}
          THEN DominantMap(Tail(rgbs),
                 [i \in 1..Len(map) |-> IF i \in hit THEN [map[i] EXCEPT !.key = @ + 1] ELSE map[i]])
          ELSE DominantMap(Tail(rgbs), Append(map, [rgb |-> q, key |-> 1]))

dominantAlgo(rgbs, k) ==
  LET sorted == SortDesc(DominantMap(rgbs, <<>>))
      top == SubSeq(sorted, 1, Min(k, Len(sorted)))
  IN padRgbToK([i \in 1..Len(top) |-> top[i].rgb], k)

(***************************************************************************)
(* ImageGenerator.ts: 4. vibrant, 5. muted                                 *)
(***************************************************************************)
vibrantAlgo(labs, k) ==
  LET vivid == FilterIdx(labs, {i \in 1..Len(labs) :
                                  /\ LabChroma2(labs[i]) > 1000 * 1000
                                  /\ labs[i].L > 2500
                                  /\ labs[i].L < 8500}, 1)
  IN kMeansCore(IF Len(vivid) >= k THEN vivid ELSE labs, k, KMeansMaxIter)

mutedAlgo(labs, k) ==
  LET soft == FilterIdx(labs, {i \in 1..Len(labs) :
                                 /\ LabChroma2(labs[i]) >= 200 * 200
                                 /\ LabChroma2(labs[i]) <= 900 * 900
                                 /\ labs[i].L > 2000
                                 /\ labs[i].L < 9000}, 1)
  IN kMeansCore(IF Len(soft) >= k THEN soft ELSE labs, k, KMeansMaxIter)

(***************************************************************************)
(* Trigonometry on the cosine table; angles in units of 1/HueScale degree  *)
(***************************************************************************)
\* cos of a whole number of degrees
CosWhole(d) ==
  LET e == d % 360
  IN IF e <= 90 THEN CosDeg[e + 1]
     ELSE IF e <= 180 THEN -CosDeg[180 - e + 1]
     ELSE IF e <= 270 THEN -CosDeg[e - 180 + 1]
     ELSE CosDeg[360 - e + 1]

SinWhole(d) == CosWhole(d + 270)

\* Math.cos(h * Math.PI / 180), linear between whole degrees
Cos(h) ==
  LET d == h \div HueScale
      f == h % HueScale
  IN CosWhole(d) + ((CosWhole(d + 1) - CosWhole(d)) * f) \div HueScale

Sin(h) == Cos(h + 270 * HueScale)

\* does the direction of (a, b) lie in the sector [lo, hi) of whole degrees,
\* hi - lo < 180
InSector(a, b, lo, hi) ==
  /\ CosWhole(lo) * b - SinWhole(lo) * a >= 0
  /\ CosWhole(hi) * b - SinWhole(hi) * a < 0
  /\ CosWhole(lo) * a + SinWhole(lo) * b > 0

(***************************************************************************)
(* ImageGenerator.ts: 6. octree                                            *)
(* The tree has one bit of each channel per level and depth 8, so a leaf   *)
(* is a distinct 24-bit colour and depth-first order is the order of the   *)
(* interleaved bit string.                                                 *)
(***************************************************************************)
Bit(v, sh) == (v \div (2 ^ sh)) % 2

RECURSIVE OctPath(_, _, _, _)
OctPath(r, g, b, d) ==
  IF d = 8 THEN 0
  ELSE LET sh == 7 - d
           idx == 4 * Bit(r, sh) + 2 * Bit(g, sh) + Bit(b, sh)
       IN idx * (8 ^ sh) + OctPath(r, g, b, d + 1)

\* insert: the leaves in depth-first order, with channel sums and counts
RECURSIVE OctInsertAll(_, _)
OctInsertAll(rgbs, leaves) ==
  IF rgbs = <<>> THEN leaves
  ELSE LET r == RoundDiv(Head(rgbs).r, ChanPerByte)
           g == RoundDiv(Head(rgbs).g, ChanPerByte)
           b == RoundDiv(Head(rgbs).b, ChanPerByte)
           path == OctPath(r, g, b, 0)
           hit == {i \in 1..Len(leaves) : leaves[i].path = path}
           before == Cardinality({i \in 1..Len(leaves) : leaves[i].path < path})
       IN IF hit # {}
          THEN OctInsertAll(Tail(rgbs),
                 [i \in 1..Len(leaves) |->
                    IF i \in hit
                    THEN [leaves[i] EXCEPT !.r = @ + r, !.g = @ + g, !.b = @ + b, !.key = @ + 1]
                    ELSE leaves[i]])
          ELSE OctInsertAll(Tail(rgbs),
                 SubSeq(leaves, 1, before)
                   \o <<[path |-> path, r |-> r, g |-> g, b |-> b, key |-> 1]>>
                   \o SubSeq(leaves, before + 1, Len(leaves)))

\* the reduction loop with a getLeaves that keeps the emptied leaf: the leaf
\* list never gets shorter; followed for one round more than it has leaves
RECURSIVE OctReduceKeepingEmptied(_, _, _)
OctReduceKeepingEmptied(leaves, k, rounds) ==
  IF Len(leaves) <= k \/ rounds > Len(leaves) THEN [leaves |-> leaves, rounds |-> rounds]
  ELSE LET first == SortAsc(leaves)[1]
           i == CHOOSE i \in 1..Len(leaves) : leaves[i] = first
       IN OctReduceKeepingEmptied([leaves EXCEPT ![i].key = 0], k, rounds + 1)

\* the reduction loop: the first leaf of least count is emptied
RECURSIVE OctReduce(_, _, _)
OctReduce(leaves, k, rounds) ==
  IF Len(leaves) <= k THEN [leaves |-> leaves, rounds |-> rounds]
  ELSE LET first == SortAsc(leaves)[1]
           i == CHOOSE i \in 1..Len(leaves) : leaves[i] = first
       IN OctReduce(RemoveAt(leaves, i), k, rounds + 1)

octreeAlgo(rgbs, k) ==
  LET leaves == OctReduce(OctInsertAll(rgbs, <<>>), k, 0).leaves
      sorted == SortDesc(leaves)
      top == SubSeq(sorted, 1, Min(k, Len(sorted)))
  IN padRgbToK([i \in 1..Len(top) |->
                  [r |-> Max(0, Min(ChanOne, (top[i].r * ChanPerByte) \div top[i].key)),
                   g |-> Max(0, Min(ChanOne, (top[i].g * ChanPerByte) \div top[i].key)),
                   b |-> Max(0, Min(ChanOne, (top[i].b * ChanPerByte) \div top[i].key))]], k)

(***************************************************************************)
(* ImageGenerator.ts: 7. colour moments                                    *)
(***************************************************************************)
Mean(vals) == SumSeq(vals) \div Len(vals)

StdDev(vals) ==
  LET m == Mean(vals)
  IN ISqrt(SumSeq([i \in 1..Len(vals) |-> (vals[i] - m) * (vals[i] - m)]) \div Len(vals))

\* cbrt of the third central moment; the cube is taken at 1/1000
Skew(vals) ==
  LET m == Mean(vals)
      d(i) == (vals[i] - m) \div 10
  IN 10 * ICbrt(SumSeq([i \in 1..Len(vals) |-> d(i) * d(i) * d(i)]) \div Len(vals))

MomentPoint(m, s, sk, t) ==
  ImgClamp01(m + (t * s) \div LabScale
               + (((((t * t) \div LabScale - LabScale \div 3) * sk) \div LabScale) * 3) \div 10)

colorMomentsAlgo(labs, k) ==
  IF Len(labs) = 0 THEN padToK(<<>>, k)
  ELSE LET Ls == [i \in 1..Len(labs) |-> labs[i].L]
           As == [i \in 1..Len(labs) |-> labs[i].a]
           Bs == [i \in 1..Len(labs) |-> labs[i].b]
       IN [j \in 1..k |->
             LET t == IF k = 1 THEN 0 ELSE (2 * (j - 1) * LabScale) \div (k - 1) - LabScale
             IN [L |-> MomentPoint(Mean(Ls), StdDev(Ls), Skew(Ls), t),
                 a |-> MomentPoint(Mean(As), StdDev(As), Skew(As), t),
                 b |-> MomentPoint(Mean(Bs), StdDev(Bs), Skew(Bs), t)]]

(***************************************************************************)
(* ImageGenerator.ts: 8. neural quantization                               *)
(***************************************************************************)
NeuralMaxPasses == 4000

\* Math.exp(-(dist * dist) / (2 * radius * radius)) for 0 <= dist <= radius <= 3
Gauss(dist, radius) ==
  IF dist = 0 THEN LabScale
  ELSE IF dist = radius THEN 6065
  ELSE IF radius = 2 THEN 8825
  ELSE IF dist = 1 THEN 9460
  ELSE 8007

NeuralBmu(lab, neurons) ==
  CHOOSE bmu \in 1..Len(neurons) :
    /\ \A ni \in 1..Len(neurons) : LabDist2(lab, neurons[bmu]) <= LabDist2(lab, neurons[ni])
    /\ \A ni \in 1..(bmu - 1) : LabDist2(lab, neurons[ni]) > LabDist2(lab, neurons[bmu])

RECURSIVE NeuralLoop(_, _, _, _, _, _)
NeuralLoop(labs, neurons, k, pass, passes, step) ==
  IF pass >= passes THEN neurons
  ELSE LET lab == labs[((pass * step) % Len(labs)) + 1]
           rate == (4000 * (passes - pass)) \div passes
           bmu == NeuralBmu(lab, neurons)
           radius == Max(1, RoundDiv(k * (passes - pass), 4 * passes))
           moved == [ni \in 1..k |->
                       LET dist == Abs(ni - bmu)
                           influence == (rate * Gauss(dist, radius)) \div LabScale
                       IN IF dist > radius THEN neurons[ni]
                          ELSE [L |-> neurons[ni].L + (influence * (lab.L - neurons[ni].L)) \div LabScale,
                                a |-> neurons[ni].a + (influence * (lab.a - neurons[ni].a)) \div LabScale,
                                b |-> neurons[ni].b + (influence * (lab.b - neurons[ni].b)) \div LabScale]]
       IN NeuralLoop(labs, moved, k, pass + 1, passes, step)

RECURSIVE NeuralUnique(_, _)
NeuralUnique(neurons, unique) ==
  IF neurons = <<>> THEN unique
  ELSE IF \E u \in 1..Len(unique) : LabDist2(unique[u], Head(neurons)) < 50000
       THEN NeuralUnique(Tail(neurons), unique)
       ELSE NeuralUnique(Tail(neurons), Append(unique, Head(neurons)))

neuralQuantAlgo(labs, k) ==
  IF Len(labs) < k
  THEN {padToK(km, k) : km \in kMeansCore(labs, Len(labs), KMeansMaxIter)}
  ELSE LET neurons == [i \in 1..k |-> labs[(((i - 1) * Len(labs)) \div k) + 1]]
           passes == Min(Len(labs), NeuralMaxPasses)
           step == Max(1, Len(labs) \div passes)
       IN {padToK(NeuralUnique(NeuralLoop(labs, neurons, k, 0, passes, step), <<>>), k)}

\* the index in labs of the object that neuron i is: 0, as ({ ...labs[j] })
\* makes a new object
NeuronSource(labs, k, i) == 0

\* the elements of the argument array after neuralQuantAlgo(labs, k):
\* neurons[ni].L += ... updates a neuron in place
LabsAfterNeuralQuant(labs, k) ==
  IF Len(labs) < k THEN labs
  ELSE LET neurons == [i \in 1..k |-> labs[(((i - 1) * Len(labs)) \div k) + 1]]
           passes == Min(Len(labs), NeuralMaxPasses)
           step == Max(1, Len(labs) \div passes)
           final == NeuralLoop(labs, neurons, k, 0, passes, step)
       IN [j \in 1..Len(labs) |->
             IF \E i \in 1..k : NeuronSource(labs, k, i) = j
             THEN final[CHOOSE i \in 1..k : NeuronSource(labs, k, i) = j]
             ELSE labs[j]]

(***************************************************************************)
(* ImageGenerator.ts: 9. hue histogram                                     *)
(***************************************************************************)
BINS == 72

\* Math.floor(H / (360 / BINS)) % BINS for H = atan2(b, a) in [0, 360)
HueBin(lab) ==
  IF lab.a = 0 /\ lab.b = 0 THEN 0
  ELSE CHOOSE j \in 0..(BINS - 1) : InSector(lab.a, lab.b, 5 * j, 5 * j + 5)

\* bins[j + 1] is the source's bins[j]
HistBins(labs) ==
  LET binOf == Eager([i \in 1..Len(labs) |-> HueBin(labs[i])])
  IN Eager([j \in 1..BINS |->
        LET sel == FilterIdx(labs, {i \in 1..Len(labs) : binOf[i] = j - 1}, 1)
        IN [sumL |-> SumSeq([i \in 1..Len(sel) |-> sel[i].L]),
            sumC |-> SumSeq([i \in 1..Len(sel) |-> LabChroma(sel[i])]),
            count |-> Len(sel)]])

\* three times the smoothed count (the source divides the same sum by 3)
HistSmooth(bins) ==
  Eager([j \in 1..BINS |->
     [key |-> bins[((j - 2 + BINS) % BINS) + 1].count + bins[j].count + bins[(j % BINS) + 1].count,
      idx |-> j - 1]])

RECURSIVE HistPadLoop(_, _, _, _, _, _)
HistPadLoop(top, byCount, bins, k, pi, rounds) ==
  IF ~(Len(top) < k /\ pi < BINS) THEN [top |-> top, rounds |-> rounds]
  ELSE LET idx == byCount[pi + 1].idx
       IN HistPadLoop(IF (\A t \in 1..Len(top) : top[t] # idx) /\ bins[idx + 1].count > 0
                      THEN Append(top, idx) ELSE top,
                      byCount, bins, k, pi + 1, rounds + 1)

RECURSIVE HistSynthLoop(_, _, _)
HistSynthLoop(top, k, synthBin) ==
  IF Len(top) >= k THEN top
  ELSE HistSynthLoop(Append(top, synthBin), k, synthBin + BINS \div k)

HistColour(bins, bi) ==
  LET H == 5 * bi * HueScale + (5 * HueScale) \div 2
      bin == bins[bi + 1]
      L == IF bin.count > 0 THEN bin.sumL \div bin.count ELSE 5000
      C == IF bin.count > 0 THEN bin.sumC \div bin.count ELSE 1200
  IN [L |-> L, a |-> (C * Cos(H)) \div LabScale, b |-> (C * Sin(H)) \div LabScale]

histogramAlgo(labs, k) ==
  LET bins == HistBins(labs)
      smooth == HistSmooth(bins)
      isPeak(j) == /\ smooth[j].key > smooth[((j - 2 + BINS) % BINS) + 1].key
                   /\ smooth[j].key >= smooth[(j % BINS) + 1].key
                   /\ bins[j].count > 0
      peaks == SortDesc(FilterIdx(smooth, {j \in 1..BINS : isPeak(j)}, 1))
      top == Eager([i \in 1..Min(k, Len(peaks)) |-> peaks[i].idx])
      byCount == SortDesc(smooth)
      padded == HistPadLoop(top, byCount, bins, k, 0, 0).top
      full == HistSynthLoop(padded, k, 0)
  IN Eager([i \in 1..Min(k, Len(full)) |-> HistColour(bins, full[i])])

(***************************************************************************)
(* ImageGenerator.ts: 10. farthest point (Delta-E)                         *)
(***************************************************************************)
DeltaEMaxCands == 2000

\* cands.reduce: the first candidate of greatest chroma
DeltaESeed(cands) ==
  cands[CHOOSE i \in 1..Len(cands) :
          /\ \A j \in 1..Len(cands) : LabChroma(cands[i]) >= LabChroma(cands[j])
          /\ \A j \in 1..(i - 1) : LabChroma(cands[j]) < LabChroma(cands[i])]

RECURSIVE DeltaELoop(_, _, _)
DeltaELoop(cands, selected, k) ==
  IF Len(selected) >= k THEN selected
  ELSE LET minD(c) == MinDist2(c, selected)
           far == CHOOSE i \in 1..Len(cands) :
                    /\ \A j \in 1..Len(cands) : minD(cands[i]) >= minD(cands[j])
                    /\ \A j \in 1..(i - 1) : minD(cands[j]) < minD(cands[i])
       IN IF minD(cands[far]) = 0 THEN selected
          ELSE DeltaELoop(cands, Append(selected, cands[far]), k)

deltaEAlgo(labs, k) ==
  IF Len(labs) = 0 THEN padToK(<<>>, k)
  ELSE LET step == Max(1, Len(labs) \div DeltaEMaxCands)
           cands == FilterIdx(labs, {i \in 1..Len(labs) : (i - 1) % step = 0}, 1)
       IN padToK(DeltaELoop(cands, <<DeltaESeed(cands)>>, k), k)

(***************************************************************************)
(* JavaScript values and strings                                           *)
(***************************************************************************)
\* A string is the sequence of its characters.  A value whose type matters
\* is a record with the field t = typeof-like tag: "string" (field s),
\* "array" (field items), "number", "object" (null) or "undefined".
Str(s) == [t |-> "string", s |-> s]
Arr(items) == [t |-> "array", items |-> items]
JsNumber == [t |-> "number"]
JsNull == [t |-> "object"]
JsUndefined == [t |-> "undefined"]

\* the outcome of a call: a returned value or a thrown error
Return(v) == [threw |-> FALSE, value |-> v]
Throw(error, message) == [threw |-> TRUE, error |-> error, message |-> message]

WhiteSpace == {" ", "\t", "\n"}

RECURSIVE TrimStart(_)
TrimStart(s) == IF s # <<>> /\ Head(s) \in WhiteSpace THEN TrimStart(Tail(s)) ELSE s

RECURSIVE TrimEnd(_)
TrimEnd(s) ==
  IF s # <<>> /\ s[Len(s)] \in WhiteSpace THEN TrimEnd(SubSeq(s, 1, Len(s) - 1)) ELSE s

\* String.prototype.trim
Trim(s) == TrimEnd(TrimStart(s))

\* the lower-case form of the upper-case letters
LowerOfUpper ==
  ("A" :> "a") @@ ("B" :> "b") @@ ("C" :> "c") @@ ("D" :> "d") @@ ("E" :> "e") @@ ("F" :> "f") @@
  ("G" :> "g") @@ ("H" :> "h") @@ ("I" :> "i") @@ ("J" :> "j") @@ ("K" :> "k") @@ ("L" :> "l") @@
  ("M" :> "m") @@ ("N" :> "n") @@ ("O" :> "o") @@ ("P" :> "p") @@ ("Q" :> "q") @@ ("R" :> "r") @@
  ("S" :> "s") @@ ("T" :> "t") @@ ("U" :> "u") @@ ("V" :> "v") @@ ("W" :> "w") @@ ("X" :> "x") @@
  ("Y" :> "y") @@ ("Z" :> "z")

LowerLetters == <<"a", "b", "c", "d", "e", "f", "g", "h", "i", "j", "k", "l", "m",
                  "n", "o", "p", "q", "r", "s", "t", "u", "v", "w", "x", "y", "z">>

LowerChar(c) == IF c \in DOMAIN LowerOfUpper THEN LowerOfUpper[c] ELSE c

\* String.prototype.toLowerCase
ToLowerCase(s) == Eager([i \in 1..Len(s) |-> LowerChar(s[i])])

LowerHexChars == {HexDigits[i] : i \in 1..16}

\* parseInt(c, 16) of one hexadecimal digit of either case
HexValue ==
  ("0" :> 0) @@ ("1" :> 1) @@ ("2" :> 2) @@ ("3" :> 3) @@ ("4" :> 4) @@ ("5" :> 5) @@ ("6" :> 6) @@ ("7" :> 7) @@
  ("8" :> 8) @@ ("9" :> 9) @@ ("a" :> 10) @@ ("b" :> 11) @@ ("c" :> 12) @@ ("d" :> 13) @@ ("e" :> 14) @@ ("f" :> 15) @@
  ("A" :> 10) @@ ("B" :> 11) @@ ("C" :> 12) @@ ("D" :> 13) @@ ("E" :> 14) @@ ("F" :> 15)

\* { r, g, b } of "#rrggbb" as bytes: parseInt(hex.slice(1, 3), 16), ...
HexBytes(hex) ==
  <<16 * HexValue[hex[2]] + HexValue[hex[3]],
    16 * HexValue[hex[4]] + HexValue[hex[5]],
    16 * HexValue[hex[6]] + HexValue[hex[7]]>>

(***************************************************************************)
(* select60-30-10.ts                                                       *)
(***************************************************************************)
\* /^[0-9a-f]{n}$/.test(h)
IsLowerHex(h, n) == Len(h) = n /\ \A i \in 1..Len(h) : h[i] \in LowerHexChars

\* _normaliseHex without the three-digit branch
normaliseHexSixOnly(raw) ==
  IF raw.t # "string" THEN Throw("TypeError", "Color must be a string")
  ELSE LET trimmed == Trim(raw.s)
           noHash == IF trimmed # <<>> /\ Head(trimmed) = "#" THEN Tail(trimmed) ELSE trimmed
           h == ToLowerCase(noHash)
       IN IF IsLowerHex(h, 6)
          THEN Return(<<"#">> \o h)
          ELSE Throw("RangeError", "Invalid hex color")

\* _normaliseHex without the typeof guard, the value converted with String(raw)
normaliseHexCoercing(raw) ==
  LET s == IF raw.t = "string" THEN raw.s ELSE <<"4", "2">>
      trimmed == Trim(s)
      noHash == IF trimmed # <<>> /\ Head(trimmed) = "#" THEN Tail(trimmed) ELSE trimmed
      h == ToLowerCase(noHash)
  IN IF IsLowerHex(h, 3)
     THEN Return(<<"#", h[1], h[1], h[2], h[2], h[3], h[3]>>)
     ELSE IF IsLowerHex(h, 6)
     THEN Return(<<"#">> \o h)
     ELSE Throw("RangeError", "Invalid hex color")

\* _normaliseHex: the message of the TypeError is kept up to its constant
\* prefix
normaliseHex(raw) ==
  IF raw.t # "string" THEN Throw("TypeError", "Color must be a string")
  ELSE LET trimmed == Trim(raw.s)
           noHash == IF trimmed # <<>> /\ Head(trimmed) = "#" THEN Tail(trimmed) ELSE trimmed
           h == ToLowerCase(noHash)
       IN IF IsLowerHex(h, 3)
          THEN Return(<<"#", h[1], h[1], h[2], h[2], h[3], h[3]>>)
          ELSE IF IsLowerHex(h, 6)
          THEN Return(<<"#">> \o h)
          ELSE Throw("RangeError", "Invalid hex color")

\* Math.atan2(b, a) * 180 / Math.PI, brought into [0, 360), in 1/HueScale degree
HueOf(a, b) ==
  IF a = 0 /\ b = 0 THEN 0
  ELSE LET d == CHOOSE d \in 0..359 : InSector(a, b, d, d + 1)
           lo == CosWhole(d) * b - SinWhole(d) * a
           hi == SinWhole(d + 1) * a - CosWhole(d + 1) * b
       IN d * HueScale + (HueScale * lo) \div (lo + hi)

hexToLch(hex) ==
  LET lab == OklabOfRgb[HexBytes(hex)]
  IN [L |-> lab.L, C |-> LabChroma(lab), H |-> HueOf(lab.a, lab.b)]

\* _lchToHex: the bytes of _rgbToHex(_oklabToRgb(L, C cos H, C sin H))
lchToHex(L, C, H) ==
  LET lin == LinearRgb([L |-> L, a |-> (C * Cos(H)) \div LabScale, b |-> (C * Sin(H)) \div LabScale])
  IN <<"#">> \o HexPad2(EncodeByte(lin.r)) \o HexPad2(EncodeByte(lin.g)) \o HexPad2(EncodeByte(lin.b))

hueDist(h1, h2) ==
  LET d == Abs(h1 - h2) % (360 * HueScale)
  IN IF d > 180 * HueScale THEN 360 * HueScale - d ELSE d

\* wcagY: relative luminance of "#rrggbb" in units of 1/LinScale
wcagY(hex) ==
  LET rgb == HexBytes(normaliseHex(Str(hex)).value)
  IN (2126 * (LinByte[rgb[1] + 1] \div 10) + 7152 * (LinByte[rgb[2] + 1] \div 10)
        + 722 * (LinByte[rgb[3] + 1] \div 10)) \div 1000

\* wcagContrast as the pair <<numerator, denominator>> of the ratio
wcagContrast(hexA, hexB) ==
  LET ya == wcagY(hexA)
      yb == wcagY(hexB)
  IN <<Max(ya, yb) + LinScale \div 20, Min(ya, yb) + LinScale \div 20>>

White == <<"#", "f", "f", "f", "f", "f", "f">>
NearBlack == <<"#", "1", "1", "1", "1", "1", "1">>

\* p >= q for ratios p, q given as pairs; the products are divided by 1000
\* first to stay in 32-bit range
RatioGeq(p, q) == (p[1] \div 1000) * (q[2] \div 10) >= (q[1] \div 1000) * (p[2] \div 10)

bestTextOn(bgHex) ==
  IF RatioGeq(wcagContrast(bgHex, White), wcagContrast(bgHex, NearBlack)) THEN White ELSE NearBlack

\* Array.prototype.sort by a numeric key, descending / ascending
SortByDesc(s, Key(_)) ==
  LET sorted == SortDesc(Eager([i \in 1..Len(s) |-> [key |-> Key(s[i]), v |-> s[i]]]))
  IN Eager([i \in 1..Len(s) |-> sorted[i].v])

SortByAsc(s, Key(_)) ==
  LET sorted == SortAsc(Eager([i \in 1..Len(s) |-> [key |-> Key(s[i]), v |-> s[i]]]))
  IN Eager([i \in 1..Len(s) |-> sorted[i].v])

Filter(s, Keep(_)) == FilterIdx(s, {i \in 1..Len(s) : Keep(s[i])}, 1)

\* the sort key of Step 1 replaced by the chroma
KeyLByChroma(c) == c.lch.C

KeyL(c) == c.lch.L
KeyC(c) == c.lch.C

\* the defaults of SelectOptions
DefaultSelectOptions ==
  [neutralChromaMax |-> 600, mainLightnessMin |-> 4000, mainLightnessMax |-> 7200,
   shadeHueTolerance |-> 30 * HueScale, accentHueMin |-> 100 * HueScale,
   derivedDarkL |-> 2000, derivedDarkC |-> 350]

\* mkRole called without its fifth argument: derived keeps its default
mkRoleDefaultDerived(role, label, weight, hex, derived, nlHex) ==
  LET ratio == wcagContrast(hex, nlHex)
  IN [hex |-> hex, role |-> role, label |-> label, weight |-> weight, derived |-> FALSE,
      textColor |-> bestTextOn(hex),
      contrast |-> RoundDiv(100 * ratio[1], ratio[2])]

mkRole(role, label, weight, hex, derived, nlHex) ==
  LET ratio == wcagContrast(hex, nlHex)
  IN [hex |-> hex, role |-> role, label |-> label, weight |-> weight, derived |-> derived,
      textColor |-> bestTextOn(hex),
      contrast |-> RoundDiv(100 * ratio[1], ratio[2])]

\* px.filter without the exclusion: every colour is kept
NotExcludedAny(c, excluded) == TRUE

\* !excluded.has(c.hex), for the Set excluded of hex strings
NotExcluded(c, excluded) == c.hex \notin excluded

\* the body of select60_30_10 after validation, on the normalised colours px
SelectRoles(px, cfg) ==
  LET IsNearNeutral(c) == c.lch.C < cfg.neutralChromaMax
      nearNeutrals == Filter(px, IsNearNeutral)
      nlSrc == SortByDesc(IF Len(nearNeutrals) > 0 THEN nearNeutrals ELSE px, KeyL)[1]
      InMidBand(c) == c.lch.L >= cfg.mainLightnessMin /\ c.lch.L <= cfg.mainLightnessMax
      midBand == Filter(px, InMidBand)
      mainSrc == SortByDesc(IF Len(midBand) > 0 THEN midBand ELSE px, KeyC)[1]
      IsDarkNeutral(c) == c.lch.L < 3500 /\ c.hex # nlSrc.hex
      darkNeutrals == Filter(nearNeutrals, IsDarkNeutral)
      neutralDarkDerived == Len(darkNeutrals) = 0
      neutralDarkHex ==
        IF Len(darkNeutrals) > 0 THEN SortByAsc(darkNeutrals, KeyL)[1].hex
        ELSE lchToHex(cfg.derivedDarkL, cfg.derivedDarkC, mainSrc.lch.H)
      NotIn12(c) == NotExcluded(c, {nlSrc.hex, mainSrc.hex})
      rem12 == Filter(px, NotIn12)
      IsSameHue(c) ==
        hueDist(c.lch.H, mainSrc.lch.H) < cfg.shadeHueTolerance /\ c.lch.C > 1000
      sameHue == Filter(rem12, IsSameHue)
      shadeDerived == Len(rem12) = 0
      shadeHex ==
        IF Len(rem12) > 0
        THEN SortByDesc(IF Len(sameHue) > 0 THEN sameHue ELSE rem12, KeyC)[1].hex
        ELSE lchToHex(Max(500, mainSrc.lch.L - 800), (mainSrc.lch.C * 92) \div 100, mainSrc.lch.H)
      NotIn123(c) == NotExcluded(c, {nlSrc.hex, mainSrc.hex, shadeHex})
      rem123 == Filter(px, NotIn123)
      IsFarHue(c) == hueDist(c.lch.H, mainSrc.lch.H) >= cfg.accentHueMin
      farHue == Filter(rem123, IsFarHue)
      accentDerived == Len(rem123) = 0
      accentHex ==
        IF Len(rem123) > 0
        THEN SortByDesc(IF Len(farHue) > 0 THEN farHue ELSE rem123, KeyC)[1].hex
        ELSE lchToHex(7200, Min(mainSrc.lch.C, 1800), (mainSrc.lch.H + 150 * HueScale) % (360 * HueScale))
  IN [neutralLight |-> mkRole("neutralLight", "Neutral Light", "60%", nlSrc.hex, FALSE, nlSrc.hex),
      neutralDark |-> mkRole("neutralDark", "Neutral Dark", "-", neutralDarkHex, neutralDarkDerived, nlSrc.hex),
      mainColor |-> mkRole("mainColor", "Main Color", "30%", mainSrc.hex, FALSE, nlSrc.hex),
      mainColorShade |-> mkRole("mainColorShade", "Main Color Shade", "-", shadeHex, shadeDerived, nlSrc.hex),
      accentColor |-> mkRole("accentColor", "Accent Color", "10%", accentHex, accentDerived, nlSrc.hex)]

\* palette.map(raw => ({ hex: _normaliseHex(raw), lch: _hexToLch(hex) })):
\* the first element that fails to normalise throws
select60_30_10(palette, cfg) ==
  IF palette.t # "array" \/ Len(palette.items) = 0
  THEN Throw("TypeError", "palette must be a non-empty array of hex color strings")
  ELSE LET norm == MapSeq(palette.items, normaliseHex)
           bad == {i \in 1..Len(norm) : norm[i].threw}
           Colour(n) == [hex |-> n.value, lch |-> hexToLch(n.value)]
       IN IF bad # {} THEN norm[SetMin(bad)]
          ELSE Return(SelectRoles(MapSeq(norm, Colour), cfg))

(***************************************************************************)
(* RadiumGenerator.ts                                                      *)
(***************************************************************************)
\* Math.pow(x, 1.6) * LabScale at x = j / 100, j = 0..100
Pow16Table ==
  <<
    0, 6, 19, 37, 58, 83, 111, 142, 176, 212, 251, 293,
    336, 382, 430, 481, 533, 587, 643, 701, 761, 823, 887, 952,
    1019, 1088, 1159, 1231, 1305, 1380, 1457, 1535, 1615, 1697, 1780, 1864,
    1950, 2038, 2126, 2217, 2308, 2401, 2496, 2591, 2689, 2787, 2887, 2988,
    3090, 3194, 3299, 3405, 3512, 3621, 3731, 3842, 3955, 4068, 4183, 4299,
    4416, 4534, 4654, 4775, 4897, 5020, 5144, 5269, 5395, 5523, 5651, 5781,
    5912, 6044, 6177, 6311, 6446, 6582, 6720, 6858, 6998, 7138, 7280, 7422,
    7566, 7710, 7856, 8003, 8150, 8299, 8449, 8599, 8751, 8904, 9057, 9212,
    9368, 9524, 9682, 9840, 10000
  >>

\* Math.pow(x, 1.4) * LabScale at x = j / 100, j = 0..100
Pow14Table ==
  <<
    0, 16, 42, 74, 110, 151, 195, 242, 291, 344, 398, 455,
    514, 575, 638, 702, 769, 837, 907, 978, 1051, 1125, 1201, 1278,
    1356, 1436, 1517, 1599, 1683, 1767, 1853, 1940, 2029, 2118, 2208, 2300,
    2392, 2486, 2580, 2676, 2773, 2870, 2969, 3068, 3168, 3270, 3372, 3475,
    3579, 3684, 3789, 3896, 4003, 4111, 4220, 4330, 4441, 4552, 4664, 4777,
    4891, 5006, 5121, 5237, 5354, 5471, 5589, 5708, 5828, 5948, 6069, 6191,
    6313, 6437, 6560, 6685, 6810, 6936, 7062, 7189, 7317, 7445, 7574, 7704,
    7834, 7965, 8097, 8229, 8361, 8495, 8629, 8763, 8898, 9034, 9170, 9307,
    9445, 9583, 9721, 9860, 10000
  >>

\* a tabulated power at x in [0, LabScale], linear between the grid points
PowInterp(table, x) ==
  LET j == x \div 100
      f == x % 100
  IN IF j >= 100 THEN table[101]
     ELSE table[j + 1] + ((table[j + 2] - table[j + 1]) * f) \div 100

\* Math.pow(x, 2.5) = x * x * Math.sqrt(x) for x in [0, LabScale]
Pow25(x) == (((x * x) \div LabScale) * ISqrt(x * LabScale)) \div LabScale

\* lerp: a + (b - a) * t for t in units of 1/LabScale; NaN if an argument is
lerp(a, b, t) == IF NaN \in {a, b, t} THEN NaN ELSE a + MulDiv(b - a, t, LabScale)

oklchToOklab(lch) ==
  [L |-> lch.L, a |-> (lch.C * Cos(lch.H)) \div LabScale, b |-> (lch.C * Sin(lch.H)) \div LabScale]

\* delinearize is increasing, so -0.001 <= delinearize(x) <= 1.001 is a
\* range of x: -0.001 / 12.92 and ((1.001 + 0.055) / 1.055) ^ 2.4, in units
\* of 1/LinScale
GamutMin == -77
GamutMax == 1002276

\* inGamut(oklabToRgbRaw(oklchToOklab(lch)))
inGamut(lch) ==
  LET lin == LinearRgb(oklchToOklab(lch))
  IN \A x \in {lin.r, lin.g, lin.b} : x >= GamutMin /\ x <= GamutMax

\* rgbToHex(oklabToRgb(oklchToOklab(lch)))
RadLchToHex(lch) ==
  LET lin == LinearRgb(oklchToOklab(lch))
  IN <<"#">> \o HexPad2(EncodeByte(lin.r)) \o HexPad2(EncodeByte(lin.g)) \o HexPad2(EncodeByte(lin.b))

BisectSteps == 24

\* the loop of lchToHexSafe from iteration i with the bracket [lo, hi]
RECURSIVE BisectLoop(_, _, _, _)
BisectLoop(lch, lo, hi, i) ==
  IF i >= BisectSteps THEN lo
  ELSE LET mid == (lo + hi) \div 2
       IN IF inGamut([lch EXCEPT !.C = mid])
          THEN BisectLoop(lch, mid, hi, i + 1)
          ELSE BisectLoop(lch, lo, mid, i + 1)

lchToHexSafe(lch) ==
  IF inGamut(lch) THEN RadLchToHex(lch)
  ELSE RadLchToHex([lch EXCEPT !.C = BisectLoop(lch, 0, lch.C, 0)])

LowerLetterSet == {LowerLetters[i] : i \in 1..26}

\* String.prototype.includes / startsWith / endsWith
Includes(s, sub) ==
  \E i \in 0..(Len(s) - Len(sub)) : SubSeq(s, i + 1, i + Len(sub)) = sub
StartsWith(s, sub) == Len(s) >= Len(sub) /\ SubSeq(s, 1, Len(sub)) = sub
EndsWith(s, sub) == Len(s) >= Len(sub) /\ SubSeq(s, Len(s) - Len(sub) + 1, Len(s)) = sub

\* key.toLowerCase().replace(/[^a-z]/g, "")
NormaliseKey(key) ==
  LET lower == ToLowerCase(key)
  IN FilterIdx(lower, {i \in 1..Len(lower) : lower[i] \in LowerLetterSet}, 1)

\* keys: harmonypalette, analogous, complementary, splitcomplementary, triadic, tetradic, square, accentedanalogous, doublesplitcomplementary, ambiguous
HARMONY_OFFSETS ==
  (<<"h", "a", "r", "m", "o", "n", "y", "p", "a", "l", "e", "t", "t", "e">>
     :> <<0, 150, 210>>) @@
  (<<"a", "n", "a", "l", "o", "g", "o", "u", "s">>
     :> <<-30, 0, 30>>) @@
  (<<"c", "o", "m", "p", "l", "e", "m", "e", "n", "t", "a", "r", "y">>
     :> <<0, 180>>) @@
  (<<"s", "p", "l", "i", "t", "c", "o", "m", "p", "l", "e", "m", "e", "n", "t", "a", "r", "y">>
     :> <<0, 150, 210>>) @@
  (<<"t", "r", "i", "a", "d", "i", "c">>
     :> <<0, 120, 240>>) @@
  (<<"t", "e", "t", "r", "a", "d", "i", "c">>
     :> <<0, 60, 180, 240>>) @@
  (<<"s", "q", "u", "a", "r", "e">>
     :> <<0, 90, 180, 270>>) @@
  (<<"a", "c", "c", "e", "n", "t", "e", "d", "a", "n", "a", "l", "o", "g", "o", "u", "s">>
     :> <<-30, 0, 30, 180>>) @@
  (<<"d", "o", "u", "b", "l", "e", "s", "p", "l", "i", "t", "c", "o", "m", "p", "l", "e", "m", "e", "n", "t", "a", "r", "y">>
     :> <<0, 30, 150, 180, 210, 330>>) @@
  (<<"a", "m", "b", "i", "g", "u", "o", "u", "s">>
     :> <<15, 135, 255>>)

\* SEMANTIC_TRANSFORMS[i - 1].match(k)
SemanticMatch(i, k) ==
  CASE i = 1 -> Includes(k, <<"n", "e", "u", "t", "r", "a", "l", "l", "i", "g", "h", "t">>)
       \/ (Includes(k, <<"n", "e", "u", "t", "r", "a", "l">>) /\ Includes(k, <<"l", "i", "g", "h", "t">>))
    [] i = 2 -> Includes(k, <<"n", "e", "u", "t", "r", "a", "l", "d", "a", "r", "k">>)
       \/ (Includes(k, <<"n", "e", "u", "t", "r", "a", "l">>) /\ Includes(k, <<"d", "a", "r", "k">>))
    [] i = 3 -> Includes(k, <<"n", "e", "u", "t", "r", "a", "l">>)
    [] i = 4 -> EndsWith(k, <<"s", "h", "a", "d", "e">>) \/ Includes(k, <<"c", "o", "l", "o", "r", "s", "h", "a", "d", "e">>)
    [] i = 5 -> EndsWith(k, <<"d", "a", "r", "k">>)
    [] i = 6 -> EndsWith(k, <<"l", "i", "g", "h", "t">>) \/ EndsWith(k, <<"t", "i", "n", "t">>)
    [] i = 7 -> StartsWith(k, <<"a", "c", "c", "e", "n", "t">>)
    [] i = 8 -> StartsWith(k, <<"m", "a", "i", "n">>) \/ StartsWith(k, <<"p", "r", "i", "m", "a", "r", "y">>)
       \/ StartsWith(k, <<"b", "r", "a", "n", "d">>)
    [] i = 9 -> StartsWith(k, <<"b", "a", "c", "k", "g", "r", "o", "u", "n", "d">>) \/ StartsWith(k, <<"b", "g">>)
    [] i = 10 -> StartsWith(k, <<"s", "u", "r", "f", "a", "c", "e">>)
    [] i = 11 -> StartsWith(k, <<"f", "o", "r", "e", "g", "r", "o", "u", "n", "d">>)
       \/ StartsWith(k, <<"t", "e", "x", "t">>) \/ StartsWith(k, <<"o", "n">>)

\* SEMANTIC_TRANSFORMS[i - 1].apply(lch)
SemanticApply(i, lch) ==
  CASE i = 1 -> [lch EXCEPT !.L = 9300, !.C = Min((lch.C * 8) \div 100, 150)]
    [] i = 2 -> [lch EXCEPT !.L = 1000, !.C = Min((lch.C * 8) \div 100, 150)]
    [] i = 3 -> [lch EXCEPT !.L = 5500, !.C = Min((lch.C * 6) \div 100, 120)]
    [] i = 4 -> [lch EXCEPT !.L = 3000]
    [] i = 5 -> [lch EXCEPT !.L = 2200]
    [] i = 6 -> [lch EXCEPT !.L = 8800, !.C = lch.C \div 2]
    [] i = 7 -> [lch EXCEPT !.L = 6200, !.C = Max(lch.C, 2200)]
    [] i = 8 -> [lch EXCEPT !.L = 5200, !.C = Max(lch.C, 2200)]
    [] i = 9 -> [lch EXCEPT !.L = 9700, !.C = Min((lch.C * 8) \div 100, 120)]
    [] i = 10 -> [lch EXCEPT !.L = 9100, !.C = Min((lch.C * 18) \div 100, 250)]
    [] i = 11 -> [lch EXCEPT !.L = 1800, !.C = Min((lch.C * 12) \div 100, 200)]

SemanticCount == 11

buildFromOffsets(lch, offsets, n) ==
  [j \in 1..n |->
     LET i == j - 1
         deg == offsets[(i % Len(offsets)) + 1]
         extraShift == (i \div Len(offsets)) * 800
     IN lchToHexSafe([lch EXCEPT !.L = ImgClamp01(lch.L - extraShift),
                                 !.H = (lch.H + (deg + 360) * HueScale) % (360 * HueScale)])]

buildEvenlySpaced(lch, n) ==
  [j \in 1..n |->
     lchToHexSafe([lch EXCEPT !.H = (lch.H + (360 * HueScale * (j - 1)) \div n) % (360 * HueScale)])]

buildMonochromaticRamp(lch, n) ==
  [j \in 1..n |->
     LET t == ((j - 1) * LabScale) \div Max(n - 1, 1)
         L == lerp(1200, 9400, t)
         C == (lch.C * ImgClamp01(LabScale - Pow25(Abs(t - 4500)))) \div LabScale
     IN lchToHexSafe([L |-> L, C |-> C, H |-> lch.H])]

buildTintShadeRamp(lch, n) ==
  [j \in 1..n |->
     LET t == ((j - 1) * LabScale) \div Max(n - 1, 1)
         tCurved == IF 2 * t < LabScale
                    THEN PowInterp(Pow16Table, 2 * t) \div 2
                    ELSE LabScale - PowInterp(Pow14Table, 2 * (LabScale - t)) \div 2
         u == ((t - 4000) * 10) \div 7
         L == lerp(1000, 9600, tCurved)
         C == (lch.C * ImgClamp01(LabScale - (((u * u) \div LabScale) * 6) \div 10)) \div LabScale
     IN lchToHexSafe([L |-> L, C |-> C, H |-> lch.H])]

\* generatePalette resolving a single swatch by the last matching entry
generatePaletteLastMatch(key, lch, n) ==
  LET k == NormaliseKey(key)
      matches == {i \in 1..SemanticCount : SemanticMatch(i, k)}
  IN IF n > 1
     THEN IF Includes(k, <<"t", "i", "n", "t", "s", "h", "a", "d", "e">>) THEN buildTintShadeRamp(lch, n)
          ELSE IF Includes(k, <<"m", "o", "n", "o", "c", "h", "r", "o", "m", "a", "t", "i", "c">>)
          THEN buildMonochromaticRamp(lch, n)
          ELSE IF Includes(k, <<"t", "i", "n", "t">>) \/ Includes(k, <<"s", "h", "a", "d", "e">>)
          THEN buildTintShadeRamp(lch, n)
          ELSE IF k \in DOMAIN HARMONY_OFFSETS THEN buildFromOffsets(lch, HARMONY_OFFSETS[k], n)
          ELSE buildEvenlySpaced(lch, n)
     ELSE IF matches # {} THEN <<lchToHexSafe(SemanticApply(SetMax(matches), lch))>>
     ELSE <<lchToHexSafe([lch EXCEPT !.L = 5500, !.C = Max(lch.C, 1800)])>>

generatePalette(key, lch, n) ==
  LET k == NormaliseKey(key)
      matches == {i \in 1..SemanticCount : SemanticMatch(i, k)}
  IN IF n > 1
     THEN IF Includes(k, <<"t", "i", "n", "t", "s", "h", "a", "d", "e">>) THEN buildTintShadeRamp(lch, n)
          ELSE IF Includes(k, <<"m", "o", "n", "o", "c", "h", "r", "o", "m", "a", "t", "i", "c">>)
          THEN buildMonochromaticRamp(lch, n)
          ELSE IF Includes(k, <<"t", "i", "n", "t">>) \/ Includes(k, <<"s", "h", "a", "d", "e">>)
          THEN buildTintShadeRamp(lch, n)
          ELSE IF k \in DOMAIN HARMONY_OFFSETS THEN buildFromOffsets(lch, HARMONY_OFFSETS[k], n)
          ELSE buildEvenlySpaced(lch, n)
     ELSE IF matches # {} THEN <<lchToHexSafe(SemanticApply(SetMin(matches), lch))>>
     ELSE <<lchToHexSafe([lch EXCEPT !.L = 5500, !.C = Max(lch.C, 1800)])>>

UpperHexChars == {"A", "B", "C", "D", "E", "F"}

\* HEX_RE.test(color) for /^#[0-9a-fA-F]{6}$/; a non-string is tested as
\* its string conversion ("undefined", "null", "42"), which never matches
MatchesHexRe(color) ==
  /\ color.t = "string"
  /\ Len(color.s) = 7
  /\ color.s[1] = "#"
  /\ \A i \in 2..7 : color.s[i] \in LowerHexChars \cup UpperHexChars

Red == <<"#", "f", "f", "0", "0", "0", "0">>

extractColorFromArray(colors) ==
  LET valid == {i \in 1..Len(colors) : MatchesHexRe(colors[i])}
  IN IF valid # {} THEN colors[SetMin(valid)].s ELSE Red

\* generateRadiumColors with one base colour for all keys, extracted from the
\* array of the first key
generateRadiumColorsSharedBase(input) ==
  [e \in 1..Len(input) |->
     [key |-> input[e].key,
      value |-> generatePalette(input[e].key, hexToLch(extractColorFromArray(input[1].value)),
                                Len(input[e].value))]]

\* Object.fromEntries(Object.entries(input).map(...)): input and output are
\* the sequences of [key, value] entries in property order
generateRadiumColors(input) ==
  [e \in 1..Len(input) |->
     [key |-> input[e].key,
      value |-> generatePalette(input[e].key, hexToLch(extractColorFromArray(input[e].value)),
                                Len(input[e].value))]]


(***************************************************************************)
(* PerceptualGenerator.ts                                                  *)
(* A colour { r, g, b } is the triple of its bytes.                        *)
(***************************************************************************)
\* rgbToLab (CIE L*, a*, b* in units of 1/100) and rgbToOklab (in units of
\* 1/LabScale) at the colours that the modelled inputs are drawn from
PerSpacesOfRgb ==
  (<<52, 152, 219>> :> [lab |-> [L |-> 6015, a |-> -608, b |-> -4224],
                        oklab |-> [L |-> 6531, a |-> -620, b |-> -1197]]) @@
  (<<238, 85, 51>> :> [lab |-> [L |-> 5699, a |-> 5728, b |-> 5026],
                       oklab |-> [L |-> 6510, a |-> 1614, b |-> 1090]]) @@
  (<<255, 255, 255>> :> [lab |-> [L |-> 9999, a |-> 2, b |-> -1],
                         oklab |-> [L |-> 10000, a |-> -2, b |-> 0]])

\* lerpHue: the shorter way round from h1 to h2, in 1/HueScale degree
lerpHue(h1, h2, t) ==
  IF NaN \in {h1, h2, t} THEN NaN
  ELSE LET d == h2 - h1
           delta == IF d > 180 * HueScale THEN d - 360 * HueScale
                    ELSE IF d < -(180 * HueScale) THEN d + 360 * HueScale ELSE d
       IN (h1 + MulDiv(delta, t, LabScale) + 360 * HueScale) % (360 * HueScale)

\* labToRgb followed by the rounding of rgbToHex: the bytes of a CIE Lab
\* colour
labToRgb(lab) ==
  LET fy == ((lab.L + 1600) * 100) \div 116
      fx == lab.a \div 5 + fy
      fz == fy - lab.b \div 2
      Inv(t) == IF t > 2069 THEN Cube(t) ELSE ((t - 1379) * 100000) \div 7787
      x == MulDiv(Inv(fx), 9504, LabScale)
      y == Inv(fy)
      z == MulDiv(Inv(fz), 10888, LabScale)
  IN <<EncodeByte(MulDiv(x, 32404, LabScale) - MulDiv(y, 15371, LabScale) - MulDiv(z, 4985, LabScale)),
       EncodeByte(MulDiv(y, 18759, LabScale) - MulDiv(x, 9692, LabScale) + MulDiv(z, 415, LabScale)),
       EncodeByte(MulDiv(x, 556, LabScale) - MulDiv(y, 2040, LabScale) + MulDiv(z, 10572, LabScale))>>

\* rgbToHsv: h in 1/HueScale degree, s and v in units of 1/LabScale
rgbToHsv(c) ==
  LET max == Max(c[1], Max(c[2], c[3]))
      min == Min(c[1], Min(c[2], c[3]))
      d == max - min
      h == IF d = 0 THEN 0
           ELSE IF max = c[1]
           THEN (60 * HueScale * (c[2] - c[3])) \div d + (IF c[2] < c[3] THEN 360 * HueScale ELSE 0)
           ELSE IF max = c[2] THEN (60 * HueScale * (c[3] - c[1])) \div d + 120 * HueScale
           ELSE (60 * HueScale * (c[1] - c[2])) \div d + 240 * HueScale
  IN [h |-> h, s |-> IF max = 0 THEN 0 ELSE (d * LabScale) \div max, v |-> (max * LabScale) \div 255]

\* hsvToRgb followed by the rounding and clamping of rgbToHex
hsvToRgb(hsv) ==
  LET i == (hsv.h \div (60 * HueScale)) % 6
      f == ((hsv.h - i * 60 * HueScale) * LabScale) \div (60 * HueScale)
      v == hsv.v
      p == (v * (LabScale - hsv.s)) \div LabScale
      q == (v * (LabScale - (f * hsv.s) \div LabScale)) \div LabScale
      t == (v * (LabScale - ((LabScale - f) * hsv.s) \div LabScale)) \div LabScale
      rgb == CASE i = 0 -> <<v, t, p>>
               [] i = 1 -> <<q, v, p>>
               [] i = 2 -> <<p, v, t>>
               [] i = 3 -> <<p, q, v>>
               [] i = 4 -> <<t, p, v>>
               [] OTHER -> <<v, p, q>>
  IN [k \in 1..3 |-> Max(0, Min(255, RoundDiv(rgb[k] * 255, LabScale)))]

\* the body of the switch in generatePerceptualPalettes: the bytes of the
\* colour between c1 and c2 at lt (in units of 1/LabScale) for one
\* technique.  oklabToRgb is LinearRgb, whose coefficients agree with the
\* four-digit ones of this file to the precision of the model; the boost of
\* the last four techniques is added to the nearest byte.
PerMix(tech, c1, c2, lt) ==
  LET LabOf(c) == IF tech \in {"lab", "lch"} THEN PerSpacesOfRgb[c].lab ELSE PerSpacesOfRgb[c].oklab
      ToRgb(lab) == IF tech \in {"lab", "lch"} THEN labToRgb(lab)
                    ELSE LET lin == LinearRgb(lab)
                         IN <<EncodeByte(lin.r), EncodeByte(lin.g), EncodeByte(lin.b)>>
      o1 == LabOf(c1)
      o2 == LabOf(c2)
  IN CASE tech \in {"lab", "oklab"} ->
            ToRgb([L |-> lerp(o1.L, o2.L, lt), a |-> lerp(o1.a, o2.a, lt), b |-> lerp(o1.b, o2.b, lt)])
       [] tech \in {"lch", "oklch"} ->
            LET h == lerpHue(HueOf(o1.a, o1.b), HueOf(o2.a, o2.b), lt)
                c == lerp(LabChroma(o1), LabChroma(o2), lt)
            IN ToRgb([L |-> lerp(o1.L, o2.L, lt),
                      a |-> (c * Cos(h)) \div LabScale, b |-> (c * Sin(h)) \div LabScale])
       [] tech \in {"hsl", "hsv"} ->
            LET h1 == rgbToHsv(c1)
                h2 == rgbToHsv(c2)
            IN hsvToRgb([h |-> lerpHue(h1.h, h2.h, lt), s |-> lerp(h1.s, h2.s, lt),
                         v |-> lerp(h1.v, h2.v, lt)])
       [] OTHER ->
            LET Chan(k) == EncodeByte(lerp(LinByte[c1[k] + 1], LinByte[c2[k] + 1], lt))
                boost == Sin((180 * HueScale * lt) \div LabScale) * (IF tech = "jzazbz" THEN 5 ELSE 2)
            IN <<Min(255, Chan(1) + RoundDiv(boost * 255, 100 * LabScale)), Chan(2), Chan(3)>>

PerTechniques == {"lab", "lch", "oklab", "oklch", "hct", "cam16", "hsl", "hsv", "jzazbz", "ipt"}

\* generatePerceptualPalettes(input, x): input is the sequence of the
\* [key, value] entries of the object, x >= 0.  The ramp position i / (x - 1)
\* is 0/0 = NaN when x = 1; then idx is NaN, rgbs[idx] is undefined and the
\* first technique reads a property of undefined.
generatePerceptualPalettes(input, x) ==
  LET arrays == {e \in 1..Len(input) : input[e].value.t = "array"}
      colorsArray == input[SetMin(arrays)].value.items
  IN IF arrays = {} \/ Len(colorsArray) < 1 THEN Return(<<>>)
     ELSE LET rgbs == IF Len(colorsArray) = 1
                      THEN <<HexBytes(colorsArray[1]), <<255, 255, 255>>>>
                      ELSE MapSeq(colorsArray, HexBytes)
              n == Len(rgbs)
              T(i) == IF x = 1 THEN NaN ELSE (i * LabScale) \div (x - 1)
              Idx(i) == IF T(i) = NaN THEN NaN ELSE Min((T(i) * (n - 1)) \div LabScale, n - 2)
              Swatch(tech, i) ==
                LET lt == T(i) * (n - 1) - Idx(i) * LabScale
                    res == PerMix(tech, rgbs[Idx(i) + 1], rgbs[Idx(i) + 2], lt)
                IN <<"#">> \o HexPad2(res[1]) \o HexPad2(res[2]) \o HexPad2(res[3])
          IN IF \E i \in 0..(x - 1) : Idx(i) = NaN
             THEN Throw("TypeError", "Cannot read properties of undefined (reading 'r')")
             ELSE Return([tech \in PerTechniques |-> Eager([j \in 1..x |-> Swatch(tech, j - 1)])])

(***************************************************************************)
(* DataVisualsGenerator.ts: the data-visualisation ramps                   *)
(* hexToLch and lchToHex of this file are those of select60-30-10.ts.      *)
(***************************************************************************)
\* "#NaNNaNNaN": what rgbToHex builds from channels that are NaN
NaNHex == <<"#", "N", "a", "N", "N", "a", "N", "N", "a", "N">>

\* lchToHex: a NaN coordinate makes every channel NaN
DvLchToHex(lch) ==
  IF NaN \in {lch.L, lch.C, lch.H} THEN NaNHex ELSE lchToHex(lch.L, lch.C, lch.H)

lerpLch(a, b, t) ==
  [L |-> lerp(a.L, b.L, t), C |-> lerp(a.C, b.C, t), H |-> lerpHue(a.H, b.H, t)]

\* the ramp position i / (n - 1) in units of 1/LabScale: 0/0 when n = 1
RampT(i, n) == IF n = 1 THEN NaN ELSE (i * LabScale) \div (n - 1)

sequential(base, n) ==
  LET lch == hexToLch(base)
  IN [j \in 1..n |-> DvLchToHex([L |-> lerp(9200, 2500, RampT(j - 1, n)), C |-> lch.C, H |-> lch.H])]

\* a comparison with NaN is false, so NaN takes the else branch
diverging(colorA, colorB, n) ==
  LET lchA == hexToLch(colorA)
      lchB == hexToLch(colorB)
      neutral == [L |-> 9000, C |-> 200, H |-> lchA.H]
  IN [j \in 1..n |->
        LET t == RampT(j - 1, n)
        IN IF t # NaN /\ 2 * t <= LabScale
           THEN DvLchToHex(lerpLch([lchA EXCEPT !.L = 4000], neutral, 2 * t))
           ELSE DvLchToHex(lerpLch(neutral, [lchB EXCEPT !.L = 4000],
                                   IF t = NaN THEN NaN ELSE 2 * t - LabScale))]

qualitative(base, n) ==
  LET lch == hexToLch(base)
  IN [j \in 1..n |->
        DvLchToHex([L |-> ImgClamp01(lerp(5500, 6500, 5000)), C |-> Max(lch.C, 1200),
                    H |-> (lch.H + (360 * HueScale * (j - 1)) \div n) % (360 * HueScale)])]

bivariate(colorA, colorB, n) ==
  LET lchA == hexToLch(colorA)
      lchB == hexToLch(colorB)
      corners == <<[L |-> 8500, C |-> lchA.C \div 2, H |-> lchA.H],
                   [L |-> 4500, C |-> lchA.C, H |-> lchA.H],
                   [L |-> 8500, C |-> lchB.C \div 2, H |-> lchB.H],
                   [L |-> 4500, C |-> Max(lchA.C, lchB.C), H |-> lerpHue(lchA.H, lchB.H, 5000)]>>
  IN [j \in 1..n |->
        LET idx == ((j - 1) * LabScale * 3) \div Max(n - 1, 1)
            lo == idx \div LabScale
            hi == Min(lo + 1, 3)
        IN DvLchToHex(lerpLch(corners[lo + 1], corners[hi + 1], idx - lo * LabScale))]

cyclical(base, n) ==
  LET lch == hexToLch(base)
  IN [j \in 1..n |->
        DvLchToHex([L |-> ImgClamp01(IF lch.L > 7000 THEN lch.L ELSE 6200), C |-> Max(lch.C, 1200),
                    H |-> (lch.H + (360 * HueScale * (j - 1)) \div n) % (360 * HueScale)])]

\* with idx = NaN the elements Ls[lo] and anchors[lo] are undefined, and the
\* arithmetic on them gives NaN
spectral(base, n) ==
  LET lch == hexToLch(base)
      offset == (lch.H - 30 * HueScale + 360 * HueScale) % (360 * HueScale)
      hues == <<0, 30, 60, 120, 180, 240, 280>>
      anchors == [a \in 1..7 |-> (hues[a] * HueScale + offset) % (360 * HueScale)]
      Ls == <<4500, 6000, 8000, 7200, 6200, 5000, 4200>>
  IN [j \in 1..n |->
        LET t == RampT(j - 1, n)
            idx == 6 * t
            lo == idx \div LabScale
            hi == Min(lo + 1, 6)
        IN IF t = NaN THEN DvLchToHex([L |-> NaN, C |-> Max(lch.C, 1400), H |-> NaN])
           ELSE DvLchToHex([L |-> lerp(Ls[lo + 1], Ls[hi + 1], idx - lo * LabScale),
                            C |-> Max(lch.C, 1400),
                            H |-> lerpHue(anchors[lo + 1], anchors[hi + 1], idx - lo * LabScale)])]

stepped(base, n) ==
  LET lch == hexToLch(base)
  IN [j \in 1..n |->
        DvLchToHex([L |-> 8800 - (5800 * (2 * j - 1)) \div (2 * n), C |-> (lch.C * 85) \div 100,
                    H |-> lch.H])]

\* generateDataVisuals(input, n) on input.square = colors
generateDataVisuals(colors, n) ==
  LET c0 == IF Len(colors) >= 1 THEN colors[1] ELSE <<"#", "0", "0", "0", "0", "f", "f">>
      c1 == IF Len(colors) >= 2 THEN colors[2] ELSE <<"#", "f", "f", "0", "0", "0", "0">>
      c2 == IF Len(colors) >= 3 THEN colors[3] ELSE <<"#", "0", "0", "f", "f", "0", "0">>
  IN [sequential |-> Eager(sequential(c0, n)),
      diverging |-> Eager(diverging(c0, c2, n)),
      qualitative |-> Eager(qualitative(c0, n)),
      bivariate |-> Eager(bivariate(c0, c1, n)),
      cyclical |-> Eager(cyclical(c0, n)),
      spectral |-> Eager(spectral(c0, n)),
      stepped |-> Eager(stepped(c0, n))]

(***************************************************************************)
(* DataVisualsGenerator.ts: the WCAG-targeted searches                     *)
(* A ColorRGB is a record of channels in units of 1/LabScale, a hue is in  *)
(* units of 1/HueScale degree, a target ratio in tenths.                   *)
(***************************************************************************)
white == [r |-> LabScale, g |-> LabScale, b |-> LabScale]
black == [r |-> 0, g |-> 0, b |-> 0]

\* hexToRgb
CtHexToRgb(hex) ==
  LET bytes == HexBytes(hex)
  IN [r |-> RoundDiv(bytes[1] * LabScale, 255), g |-> RoundDiv(bytes[2] * LabScale, 255),
      b |-> RoundDiv(bytes[3] * LabScale, 255)]

\* rgbToHex: "#" followed by Math.round(c * 255), kept within 0..255, of each
\* channel in base 16
CtRgbToHex(c) ==
  LET f(v) == HexPad2(Max(0, Min(255, RoundDiv(v * 255, LabScale))))
  IN <<"#">> \o f(c.r) \o f(c.g) \o f(c.b)

\* linearize, interpolated between the values LinByte holds for the bytes
linearize(c) ==
  LET j == Min((c * 255) \div LabScale, 254)
  IN LinByte[j + 1] + MulDiv(LinByte[j + 2] - LinByte[j + 1], c * 255 - j * LabScale, LabScale)

\* in units of 1/LinScale
relativeLuminance(c) ==
  (2126 * (linearize(c.r) \div 10) + 7152 * (linearize(c.g) \div 10)
     + 722 * (linearize(c.b) \div 10)) \div 1000

\* the ratio as the pair <<numerator, denominator>>
wcagContrastRatio(c1, c2) ==
  LET l1 == relativeLuminance(c1)
      l2 == relativeLuminance(c2)
  IN <<Max(l1, l2) + LinScale \div 20, Min(l1, l2) + LinScale \div 20>>

\* wcagContrastRatio(c, reference) >= targetRatio
MeetsRatio(c, reference, targetRatio) ==
  LET ratio == wcagContrastRatio(c, reference)
  IN ratio[1] * 10 >= targetRatio * ratio[2]

rgbToHsl(c) ==
  LET max == Max(c.r, Max(c.g, c.b))
      min == Min(c.r, Min(c.g, c.b))
      l == (max + min) \div 2
      d == max - min
      h == IF max = c.r
           THEN ((c.g - c.b) * 60 * HueScale) \div d + (IF c.g < c.b THEN 360 * HueScale ELSE 0)
           ELSE IF max = c.g THEN ((c.b - c.r) * 60 * HueScale) \div d + 120 * HueScale
           ELSE ((c.r - c.g) * 60 * HueScale) \div d + 240 * HueScale
  IN IF max = min THEN [h |-> 0, s |-> 0, l |-> l]
     ELSE [h |-> h, l |-> l,
           s |-> (d * LabScale) \div (IF 2 * l > LabScale THEN 2 * LabScale - max - min ELSE max + min)]

hslToRgb(hsl) ==
  LET c == MulDiv(LabScale - Abs(2 * hsl.l - LabScale), hsl.s, LabScale)
      hm == ((hsl.h * LabScale) \div (60 * HueScale)) % (2 * LabScale)
      x == MulDiv(c, LabScale - Abs(hm - LabScale), LabScale)
      m == hsl.l - c \div 2
      rgb == IF hsl.h < 60 * HueScale THEN <<c, x, 0>>
             ELSE IF hsl.h < 120 * HueScale THEN <<x, c, 0>>
             ELSE IF hsl.h < 180 * HueScale THEN <<0, c, x>>
             ELSE IF hsl.h < 240 * HueScale THEN <<0, x, c>>
             ELSE IF hsl.h < 300 * HueScale THEN <<x, 0, c>>
             ELSE <<c, 0, x>>
  IN [r |-> rgb[1] + m, g |-> rgb[2] + m, b |-> rgb[3] + m]

\* maxIter = 48
WcagMaxIter == 48

\* the search loop of adjustToWcagRatio and adjustToWcagRatioFromL: best is
\* <<>> for null; a passing candidate moves lo when raise is true and hi when
\* it is false, a failing one moves the other bound
RECURSIVE WcagSearch(_, _, _, _, _, _, _, _)
WcagSearch(hs, reference, targetRatio, lo, hi, best, raise, i) ==
  IF i >= WcagMaxIter THEN best
  ELSE LET mid == (lo + hi) \div 2
           candidate == hslToRgb([h |-> hs.h, s |-> hs.s, l |-> mid])
       IN IF MeetsRatio(candidate, reference, targetRatio) = raise
          THEN WcagSearch(hs, reference, targetRatio, mid, hi,
                          IF raise THEN <<candidate>> ELSE best, raise, i + 1)
          ELSE WcagSearch(hs, reference, targetRatio, lo, mid,
                          IF raise THEN best ELSE <<candidate>>, raise, i + 1)

\* Fallback to nearest extreme
WcagFallback(reference) ==
  IF RatioGeq(wcagContrastRatio(black, reference), wcagContrastRatio(white, reference))
  THEN black ELSE white

\* adjustToWcagRatio whose fallback returns the input colour
adjustToWcagRatioKeepingColor(color, reference, targetRatio) ==
  IF MeetsRatio(color, reference, targetRatio) THEN color
  ELSE LET hsl == rgbToHsl(color)
           darker == WcagSearch(hsl, reference, targetRatio, 0, hsl.l, <<>>, FALSE, 0)
           lighter == WcagSearch(hsl, reference, targetRatio, hsl.l, LabScale, darker, TRUE, 0)
       IN IF darker # <<>> /\ MeetsRatio(darker[1], reference, targetRatio) THEN darker[1]
          ELSE IF lighter # <<>> /\ MeetsRatio(lighter[1], reference, targetRatio) THEN lighter[1]
          ELSE color

adjustToWcagRatio(color, reference, targetRatio) ==
  IF MeetsRatio(color, reference, targetRatio) THEN color
  ELSE LET hsl == rgbToHsl(color)
           darker == WcagSearch(hsl, reference, targetRatio, 0, hsl.l, <<>>, FALSE, 0)
           lighter == WcagSearch(hsl, reference, targetRatio, hsl.l, LabScale, darker, TRUE, 0)
       IN IF darker # <<>> /\ MeetsRatio(darker[1], reference, targetRatio) THEN darker[1]
          ELSE IF lighter # <<>> /\ MeetsRatio(lighter[1], reference, targetRatio) THEN lighter[1]
          ELSE WcagFallback(reference)

\* direction "dark" searches [0, startL] and raises lo on a passing candidate
adjustToWcagRatioFromL(hue, sat, startL, reference, targetRatio, direction) ==
  LET best == WcagSearch([h |-> hue, s |-> sat], reference, targetRatio,
                         IF direction = "dark" THEN 0 ELSE startL,
                         IF direction = "dark" THEN startL ELSE LabScale,
                         <<>>, direction = "dark", 0)
  IN IF best # <<>> /\ MeetsRatio(best[1], reference, targetRatio) THEN best[1]
     ELSE WcagFallback(reference)

\* the calls of the two searches that generateContrastPalettes(input, x) makes
\* for the slots 0..x-1 of accessible, wcag and highContrast
WcagCall(fn, color, hue, sat, startL, reference, targetRatio, direction) ==
  [fn |-> fn, color |-> color, hue |-> hue, sat |-> sat, startL |-> startL,
   reference |-> reference, targetRatio |-> targetRatio, direction |-> direction]

ContrastCalls(hex, x) ==
  LET hsl == rgbToHsl(CtHexToRgb(hex))
      half == (x + 1) \div 2
      Accessible(i) ==
        LET l == IF i % 2 = 0 THEN lerp(500, 3500, (i * LabScale) \div (2 * half))
                 ELSE lerp(8800, 9800, ((i \div 2) * LabScale) \div half)
        IN WcagCall("adjustToWcagRatio",
                    hslToRgb([h |-> hsl.h, s |-> (hsl.s * 6) \div 10, l |-> l]), 0, 0, 0,
                    IF i % 2 = 0 THEN hslToRgb([h |-> hsl.h, s |-> hsl.s \div 10, l |-> 9600])
                    ELSE hslToRgb([h |-> hsl.h, s |-> (hsl.s * 8) \div 10, l |-> 1500]),
                    45, "none")
      targets == <<[bg |-> white, ratio |-> 45, startL |-> 2000],
                   [bg |-> white, ratio |-> 70, startL |-> 1000],
                   [bg |-> black, ratio |-> 45, startL |-> 8000],
                   [bg |-> black, ratio |-> 70, startL |-> 9000]>>
      Wcag(i) ==
        LET tg == targets[(i % 4) + 1]
            cycle == i \div 4
            lShift == cycle * (IF tg.startL < 5000 THEN 800 ELSE -800)
        IN WcagCall("adjustToWcagRatio",
                    hslToRgb([h |-> hsl.h, s |-> MulDiv(hsl.s, ImgClamp01(LabScale - cycle * 3000), LabScale),
                              l |-> ImgClamp01(tg.startL + lShift)]), 0, 0, 0,
                    tg.bg, tg.ratio, "none")
      lightSlots == x - half
      HighContrast(i) ==
        IF i < half
        THEN LET t == (i * LabScale) \div Max(half - 1, 1)
             IN WcagCall("adjustToWcagRatioFromL", black, hsl.h, ImgClamp01(lerp(hsl.s, 0, t)),
                         lerp(500, 2800, t), white, 70, "dark")
        ELSE LET t == ((i - half) * LabScale) \div Max(lightSlots - 1, 1)
             IN WcagCall("adjustToWcagRatioFromL", black, hsl.h,
                         Max(2000, Min(8000, (hsl.s * 7) \div 10)),
                         lerp(6500, 9800, t), black, 70, "light")
  IN {Accessible(i) : i \in 0..(x - 1)} \cup {Wcag(i) : i \in 0..(x - 1)}
       \cup {HighContrast(i) : i \in 0..(x - 1)}

(***************************************************************************)
(* The algorithmic generator (src/unnamed/part_002): the seeded palettes   *)
(* `random` and `noise`.  hexToLch and lchToHex of this file are those of  *)
(* RadiumGenerator.ts.  A 32-bit word is the pair <<high half, low half>>  *)
(* of its 16-bit halves.                                                   *)
(***************************************************************************)
Half == 65536

ToWord(n) == <<(n \div Half) % Half, n % Half>>

RECURSIVE Xor16(_, _, _)
Xor16(a, b, bits) ==
  IF bits = 0 THEN 0
  ELSE (IF a % 2 # b % 2 THEN 1 ELSE 0) + 2 * Xor16(a \div 2, b \div 2, bits - 1)

RECURSIVE Or16(_, _, _)
Or16(a, b, bits) ==
  IF bits = 0 THEN 0
  ELSE (IF a % 2 = 1 \/ b % 2 = 1 THEN 1 ELSE 0) + 2 * Or16(a \div 2, b \div 2, bits - 1)

\* x ^ y, x | y, x + y modulo 2^32, x >>> k for 0 < k < 16
WordXor(x, y) == <<Xor16(x[1], y[1], 16), Xor16(x[2], y[2], 16)>>
WordOr(x, y) == <<Or16(x[1], y[1], 16), Or16(x[2], y[2], 16)>>
WordAdd(x, y) == <<(x[1] + y[1] + (x[2] + y[2]) \div Half) % Half, (x[2] + y[2]) % Half>>
WordShr(x, k) == <<x[1] \div 2 ^ k, x[2] \div 2 ^ k + (x[1] % 2 ^ k) * 2 ^ (16 - k)>>

\* the 32-bit product of two 16-bit numbers, byte by byte
Mul16(a, b) ==
  LET p0 == (a % 256) * b
      p1 == (a \div 256) * b
  IN WordAdd(<<p0 \div Half, p0 % Half>>, <<p1 \div 256, (p1 % 256) * 256>>)

\* Math.imul: the low 32 bits of the product
imul(x, y) ==
  WordAdd(Mul16(x[2], y[2]), <<(Mul16(x[1], y[2])[2] + Mul16(x[2], y[1])[2]) % Half, 0>>)

\* one call of the closure that makePrng returns, on its variable s: the new
\* s and the number returned, in units of 1/LabScale
mulberry32(s) ==
  With(WordAdd(s, <<27947, 31221>>), LAMBDA s1 :
    With(imul(WordXor(s1, WordShr(s1, 15)), WordOr(s1, <<0, 1>>)), LAMBDA z1 :
      With(WordXor(z1, WordAdd(z1, imul(WordXor(z1, WordShr(z1, 7)), WordOr(z1, <<0, 61>>)))), LAMBDA z2 :
        With(WordXor(z2, WordShr(z2, 14)), LAMBDA out :
          [s |-> s1, value |-> (out[1] * LabScale + (out[2] * LabScale) \div Half) \div Half]))))

\* count calls of the closure in a row, from the variable's value s: the
\* value it is left with and the numbers returned, appended to values (the
\* calls are made in order, the first half of them before the second)
RECURSIVE RngDraws(_, _, _)
RngDraws(s, count, values) ==
  IF count = 0 THEN [s |-> s, values |-> values]
  ELSE IF count = 1
  THEN With(mulberry32(s), LAMBDA d : [s |-> d.s, values |-> Append(values, d.value)])
  ELSE With(RngDraws(s, count \div 2, values), LAMBDA first :
         RngDraws(first.s, count - count \div 2, first.values))

\* makePrng with its variable s declared outside the function and set once:
\* a later generator goes on from the state the last one was left in
makePrngKeepingState(seed, s) == IF s = <<>> THEN ToWord(seed) ELSE s

\* makePrng(seed): let s = seed >>> 0 declares a new variable for every
\* generator; s is the variable of the generator made before, <<>> if none
makePrng(seed, s) == ToWord(seed)

RECURSIVE SeedLoop(_, _, _)
SeedLoop(hex, i, h) ==
  IF i >= 7 THEN h ELSE SeedLoop(hex, i + 1, 31 * h + HexValue[hex[i + 1]])

\* seedFromHex: h stays below 2^31 for six hex digits, so | 0 and Math.abs
\* do not change it
seedFromHex(hex) == SeedLoop(hex, 1, 0)

\* randomPalette(base, n): the palette and the generator's variable at return
randomPalette(base, n, s) ==
  With(RngDraws(makePrng(seedFromHex(base), s), 3 * n, <<>>), LAMBDA d :
    [value |-> Eager([i \in 1..n |->
                   RadLchToHex([L |-> lerp(3500, 7500, d.values[3 * i - 2]),
                                C |-> lerp(800, 2000, d.values[3 * i - 1]),
                                H |-> (d.values[3 * i] * 360 * HueScale) \div LabScale])]),
     prng |-> d.s])

\* makeValueNoise(seed): the table of 256 draws and the generator's variable
makeValueNoise(seed, s) ==
  With(RngDraws(makePrng(seed, s), 256, <<>>), LAMBDA d : [table |-> d.values, prng |-> d.s])

\* the function makeValueNoise returns, at x >= 0 in units of 1/LabScale
ValueNoise(table, x) ==
  LET xi == (x \div LabScale) % 256
      xf == x % LabScale
      smoothstep == (((xf * xf) \div LabScale) * (3 * LabScale - 2 * xf)) \div LabScale
  IN lerp(table[xi + 1], table[((xi + 1) % 256) + 1], smoothstep)

\* noise(base, n): the palette and the variable of the last generator made
noise(base, n, s) ==
  With(hexToLch(base), LAMBDA lch :
  With(seedFromHex(base), LAMBDA seed :
  With(makeValueNoise(seed, s), LAMBDA noiseL :
  With(makeValueNoise(seed + 1, noiseL.prng), LAMBDA noiseC :
  With(makeValueNoise(seed + 2, noiseC.prng), LAMBDA noiseH :
     [value |-> Eager([j \in 1..n |->
                   LET t == ((j - 1) * LabScale) \div Max(n - 1, 1)
                       h == lch.H + (ValueNoise(noiseH.table, (t * 27) \div 10 + 2 * LabScale)
                                       * 120 * HueScale) \div LabScale - 60 * HueScale
                   IN RadLchToHex(
                        [L |-> Max(0, Min(LabScale, lerp(3500, 8000, ValueNoise(noiseL.table, (t * 35) \div 10)))),
                         C |-> Max(0, Min(LabScale, lerp(600, 2200,
                                 ValueNoise(noiseC.table, (t * 41) \div 10 + LabScale)))),
                         H |-> IF h < 0 THEN -((-h) % (360 * HueScale)) ELSE h % (360 * HueScale)])]),
      prng |-> noiseH.prng])))))

\* generateAlgorithmic(input, n): the entries random and noise of the object
\* returned, and the variable of the last generator made
generateAlgorithmic(square, n, s) ==
  LET c0 == IF Len(square) >= 1 THEN square[1] ELSE <<"#", "0", "0", "6", "5", "f", "f">>
  IN With(randomPalette(c0, n, s), LAMBDA rnd :
       With(noise(c0, n, rnd.prng), LAMBDA nse :
         [value |-> [random |-> rnd.value, noise |-> nse.value], prng |-> nse.prng]))

(***************************************************************************)
(* PerceptualGenerator.ts: generateHarmonyPalettes.  An HSL colour has h   *)
(* in units of 1/HueScale degree and s, l in units of 1/LabScale of 100.   *)
(***************************************************************************)
hexToHsl(hex) ==
  LET rgb == HexBytes(hex)
      r == rgb[1]
      g == rgb[2]
      b == rgb[3]
      max == Max(r, Max(g, b))
      min == Min(r, Min(g, b))
      d == max - min
      sixth == 60 * HueScale
  IN [h |-> IF max = min THEN 0
            ELSE IF max = r THEN (sixth * (g - b)) \div d + (IF g < b THEN 6 * sixth ELSE 0)
            ELSE IF max = g THEN (sixth * (b - r)) \div d + 2 * sixth
            ELSE (sixth * (r - g)) \div d + 4 * sixth,
      s |-> IF max = min THEN 0
            ELSE IF max + min > 255 THEN (d * LabScale) \div (510 - max - min)
            ELSE (d * LabScale) \div (max + min),
      l |-> ((max + min) * LabScale) \div 510]

hslToHex(hsl) ==
  LET a == (hsl.s * Min(hsl.l, LabScale - hsl.l)) \div LabScale
      twelfth == 30 * HueScale
      f(n) ==
        LET k == (n * twelfth + hsl.h) % (12 * twelfth)
            m == Max(Min(k - 3 * twelfth, Min(9 * twelfth - k, twelfth)), -twelfth)
            color == hsl.l - (a * m) \div twelfth
        IN HexPad2(RoundDiv(255 * color, LabScale))
  IN <<"#">> \o f(0) \o f(8) \o f(4)

shift(hsl, degree) == [hsl EXCEPT !.h = (hsl.h + degree * HueScale + 360 * HueScale) % (360 * HueScale)]

fixedTechniques(hsl) ==
  [analogous |-> <<shift(hsl, -30), hsl, shift(hsl, 30)>>,
   complementary |-> <<hsl, shift(hsl, 180)>>,
   splitComplementary |-> <<hsl, shift(hsl, 150), shift(hsl, 210)>>,
   triadic |-> <<hsl, shift(hsl, 120), shift(hsl, 240)>>,
   tetradic |-> <<hsl, shift(hsl, 60), shift(hsl, 180), shift(hsl, 240)>>,
   square |-> <<hsl, shift(hsl, 90), shift(hsl, 180), shift(hsl, 270)>>,
   accentedAnalogous |-> <<shift(hsl, -30), hsl, shift(hsl, 30), shift(hsl, 180)>>,
   doubleSplitComplementary |-> <<hsl, shift(hsl, 30), shift(hsl, 150), shift(hsl, 210),
                                  shift(hsl, 180), shift(hsl, 240)>>,
   ambiguous |-> <<shift(hsl, 15), shift(hsl, 85), shift(hsl, 145)>>]

\* monochromatic with the default count in place of n
monochromaticOfDefaultCount(hsl, n) ==
  [i \in 1..9 |-> [hsl EXCEPT !.l = Max(500, Min(9500, 1500 + (7000 * (i - 1)) \div 8))]]

\* (n - 1 || 1) is 1 for n = 1
monochromatic(hsl, n) ==
  [i \in 1..n |->
     [hsl EXCEPT !.l = Max(500, Min(9500, 1500 + (7000 * (i - 1)) \div (IF n = 1 THEN 1 ELSE n - 1)))]]

monochromaticTintShade(hsl, n) ==
  [i \in 1..n |->
     [hsl EXCEPT !.s = Max(0, hsl.s - (i - 1) * 200),
                 !.l = Max(500, Min(9500, 1000 + (8000 * (i - 1)) \div (IF n = 1 THEN 1 ELSE n - 1)))]]

\* generateHarmonyPalettes(input, count) for a count that is a natural
\* number: the object returned as a function from its keys, <<>> for {}
generateHarmonyPalettes(input, count) ==
  LET arrays == {e \in 1..Len(input) : input[e].value.t = "array" /\ Len(input[e].value.items) > 0}
      colorsArray == input[SetMin(arrays)].value.items
      baseHsl == hexToHsl(colorsArray[1])
      fixed == fixedTechniques(baseHsl)
  IN IF arrays = {} THEN <<>>
     ELSE [name \in DOMAIN fixed |-> MapSeq(fixed[name], hslToHex)]
            @@ [harmonyPalette |-> colorsArray,
                monochromatic |-> MapSeq(monochromatic(baseHsl, count), hslToHex),
                monochromaticTintShade |-> MapSeq(monochromaticTintShade(baseHsl, count), hslToHex)]

(***************************************************************************)
(* ColorFromImage.tsx.  Its OKLab functions, labDist2, labChroma and       *)
(* rgbToHex are those of ImageGenerator.ts.                                *)
(***************************************************************************)
OklabMaxIter == 20
ExtractK == 16

\* kMeansOklab(data, k): the palettes ({ hex } of the entries returned) that
\* the calls to Math.random() can lead to
kMeansOklab(data, k, maxIter) ==
  LET step == Max(1, (Len(data) \div 4) \div 4000)
      labs == MapSeq(SampleLoop(data, 0, step), ImgRgbToOklab)
  IN UNION {
       LET pixels == FilterIdx(labs, keep, 1)
           n == Len(pixels)
           result(seeds) ==
             LET run == KMeansLoop(pixels, seeds, [i \in 1..n |-> 1], k, 0, maxIter)
                 counts == [ci \in 1..k |-> Cardinality({i \in 1..n : run.assignments[i] = ci})]
                 scored == [ci \in 1..k |->
                              [key |-> counts[ci] * (LabScale + 3 * LabChroma(run.centroids[ci])),
                               hex |-> ImgLabToHex(run.centroids[ci])]]
                 sorted == SortDesc(FilterIdx(scored, {ci \in 1..k : counts[ci] > 0}, 1))
             IN [i \in 1..Len(sorted) |-> sorted[i].hex]
       IN IF n = 0 THEN {<<>>}
          ELSE {result(seeds) : seeds \in KMeansSeeds(pixels, k)}
       : keep \in SubsampleKeeps(labs)}

\* extractColors(img): the palettes it can return; getContext('2d') gives a
\* context, and getImageData throws when the canvas is tainted
extractColors(img) ==
  IF img.naturalWidth = 0 \/ img.naturalHeight = 0 THEN {<<>>}
  ELSE IF img.tainted THEN {<<>>}
  ELSE kMeansOklab(img.data, ExtractK, OklabMaxIter)

\* onColorsExtractedRef.current?.(colors) without the test of the palette's
\* length before it
ReportColorsAlways(calls, palette, load) ==
  Append(calls, [palette |-> palette, via |-> load.via, source |-> load.source])

\* if (colors.palette.length > 0) onColorsExtractedRef.current?.(colors):
\* the calls of onColorsExtracted so far, each with the handler it was made
\* in and what that handler had loaded
ReportColors(calls, palette, load) ==
  IF Len(palette) > 0
  THEN Append(calls, [palette |-> palette, via |-> load.via, source |-> load.source])
  ELSE calls

\* ---------------------------------------------------------------------------
\* ColorWheel (packages/color-wheel): hues are whole degrees, points are
\* canvas pixels relative to the canvas rectangle
\* ---------------------------------------------------------------------------

CwWidth == 450
CwHeight == 450

HARMONY_RULES ==
  [complementary |-> <<0, 180>>,
   analogous |-> <<-30, 0, 30>>,
   monochromatic |-> <<0>>,
   split |-> <<0, 150, -150>>,
   triadic |-> <<0, 120, 240>>,
   square |-> <<0, 90, 180, 270>>,
   simple |-> <<0>>]

\* wrapHue(h) = (h + 360) % 360, for h > -360
wrapHue(h) == (h + 360) % 360

\* Math.atan2(dy, dx) * 180 / Math.PI on the axes and the diagonals, where it
\* is a whole number of degrees
Atan2Deg(dy, dx) ==
  CASE dy = 0 /\ dx >= 0 -> 0
    [] dy = 0 /\ dx < 0 -> 180
    [] dx = 0 /\ dy > 0 -> 90
    [] dx = 0 /\ dy < 0 -> -90
    [] dx = dy /\ dx > 0 -> 45
    [] dx = dy /\ dx < 0 -> -135
    [] dx = -dy /\ dx > 0 -> -45
    [] dx = -dy /\ dx < 0 -> 135

pointToHue(x, y) ==
  LET dx == x - CwWidth \div 2
      dy == y - CwHeight \div 2
  IN wrapHue(Atan2Deg(dy, dx) + 90)

\* hslToRgb(h, s, l) of the component, s and l in percent; c, x and m are kept
\* over the common denominator 1200000
CwHslToRgb(h, s, l) ==
  LET den == 1200000
      c == (100 - Abs(2 * l - 100)) * s * 120
      x == (c \div 60) * (60 - Abs((h % 120) - 60))
      mm == l * 12000 - c \div 2
      rgb == IF h < 60 THEN <<c, x, 0>>
             ELSE IF h < 120 THEN <<x, c, 0>>
             ELSE IF h < 180 THEN <<0, c, x>>
             ELSE IF h < 240 THEN <<0, x, c>>
             ELSE IF h < 300 THEN <<x, 0, c>>
             ELSE <<c, 0, x>>
  IN [r |-> RoundDiv((rgb[1] + mm) * 255, den),
      g |-> RoundDiv((rgb[2] + mm) * 255, den),
      b |-> RoundDiv((rgb[3] + mm) * 255, den)]

CwRgbToHex(rgb) == <<"#">> \o HexPad2(rgb.r) \o HexPad2(rgb.g) \o HexPad2(rgb.b)

\* generatePalette(): the palette of the mode at the base hue
CwGeneratePalette(mode, baseHue, saturation, lightness) ==
  LET colorsList ==
        IF mode = "monochromatic"
        THEN <<[h |-> baseHue, l |-> 30], [h |-> baseHue, l |-> 50], [h |-> baseHue, l |-> 70]>>
        ELSE [i \in 1..Len(HARMONY_RULES[mode]) |->
                [h |-> wrapHue(baseHue + HARMONY_RULES[mode][i]), l |-> lightness]]
  IN Eager([i \in 1..Len(colorsList) |->
              CwRgbToHex(CwHslToRgb(colorsList[i].h, saturation, colorsList[i].l))])

\* handleMouseMove without the test of dragging
handleMouseMoveIgnoringDrag(dragging, baseHue, x, y) == pointToHue(x, y)

\* handleMouseMove(e): the base hue after the event
handleMouseMove(dragging, baseHue, x, y) ==
  IF ~dragging THEN baseHue ELSE pointToHue(x, y)

\* handleClick(e): the base hue after the event
handleClick(x, y) == pointToHue(x, y)

\* ---------------------------------------------------------------------------
\* RadiumGenerator.ts: decoding what lchToHexSafe returned
\* ---------------------------------------------------------------------------

\* rgbToOklab at the colours lchToHexSafe returns for the modelled inputs,
\* computed with the source's formula and rounded to 1/LabScale
OklabOfEncoded ==
  (<<0, 0, 0>> :> [L |-> 0, a |-> 0, b |-> 0]) @@
  (<<0, 0, 2>> :> [L |-> 383, a |-> -27, b |-> -264]) @@
  (<<0, 1, 0>> :> [L |-> 582, a |-> -157, b |-> 121]) @@
  (<<0, 4, 10>> :> [L |-> 1023, a |-> -114, b |-> -216]) @@
  (<<0, 5, 0>> :> [L |-> 996, a |-> -269, b |-> 206]) @@
  (<<0, 49, 79>> :> [L |-> 3007, a |-> -331, b |-> -644]) @@
  (<<0, 120, 184>> :> [L |-> 5500, a |-> -605, b |-> -1181]) @@
  (<<1, 0, 0>> :> [L |-> 422, a |-> 151, b |-> 85]) @@
  (<<1, 0, 2>> :> [L |-> 512, a |-> 171, b |-> -190]) @@
  (<<2, 0, 0>> :> [L |-> 532, a |-> 190, b |-> 107]) @@
  (<<2, 57, 0>> :> [L |-> 2992, a |-> -795, b |-> 620]) @@
  (<<3, 3, 3>> :> [L |-> 969, a |-> 0, b |-> 0]) @@
  (<<4, 4, 0>> :> [L |-> 1033, a |-> -76, b |-> 212]) @@
  (<<9, 0, 12>> :> [L |-> 1012, a |-> 376, b |-> -302]) @@
  (<<9, 0, 13>> :> [L |-> 1022, a |-> 373, b |-> -322]) @@
  (<<13, 0, 3>> :> [L |-> 1028, a |-> 415, b |-> 12]) @@
  (<<13, 138, 0>> :> [L |-> 5500, a |-> -1459, b |-> 1139]) @@
  (<<14, 0, 0>> :> [L |-> 1028, a |-> 368, b |-> 206]) @@
  (<<21, 49, 69>> :> [L |-> 3016, a |-> -233, b |-> -439]) @@
  (<<31, 52, 28>> :> [L |-> 2998, a |-> -390, b |-> 312]) @@
  (<<46, 46, 46>> :> [L |-> 3012, a |-> 0, b |-> 0]) @@
  (<<48, 48, 15>> :> [L |-> 3009, a |-> -165, b |-> 478]) @@
  (<<49, 48, 0>> :> [L |-> 3004, a |-> -206, b |-> 616]) @@
  (<<57, 37, 61>> :> [L |-> 2994, a |-> 388, b |-> -317]) @@
  (<<60, 132, 54>> :> [L |-> 5487, a |-> -1059, b |-> 824]) @@
  (<<66, 35, 45>> :> [L |-> 3007, a |-> 493, b |-> -2]) @@
  (<<68, 36, 31>> :> [L |-> 3014, a |-> 434, b |-> 248]) @@
  (<<73, 7, 86>> :> [L |-> 2999, a |-> 1028, b |-> -864]) @@
  (<<75, 0, 89>> :> [L |-> 3006, a |-> 1105, b |-> -927]) @@
  (<<85, 255, 71>> :> [L |-> 8793, a |-> -2053, b |-> 1603]) @@
  (<<88, 117, 141>> :> [L |-> 5491, a |-> -222, b |-> -453]) @@
  (<<89, 0, 43>> :> [L |-> 3004, a |-> 1217, b |-> 7]) @@
  (<<93, 0, 0>> :> [L |-> 3004, a |-> 1076, b |-> 602]) @@
  (<<97, 121, 94>> :> [L |-> 5491, a |-> -392, b |-> 307]) @@
  (<<113, 113, 113>> :> [L |-> 5486, a |-> 0, b |-> 0]) @@
  (<<116, 116, 82>> :> [L |-> 5498, a |-> -153, b |-> 472]) @@
  (<<117, 250, 105>> :> [L |-> 8798, a |-> -1733, b |-> 1353]) @@
  (<<120, 118, 0>> :> [L |-> 5496, a |-> -379, b |-> 1127]) @@
  (<<127, 104, 132>> :> [L |-> 5494, a |-> 390, b |-> -324]) @@
  (<<139, 102, 112>> :> [L |-> 5510, a |-> 495, b |-> 9]) @@
  (<<141, 103, 97>> :> [L |-> 5509, a |-> 440, b |-> 243]) @@
  (<<147, 84, 162>> :> [L |-> 5493, a |-> 1030, b |-> -874]) @@
  (<<163, 238, 155>> :> [L |-> 8798, a |-> -1059, b |-> 824]) @@
  (<<166, 50, 191>> :> [L |-> 5498, a |-> 1684, b |-> -1422]) @@
  (<<174, 75, 110>> :> [L |-> 5506, a |-> 1341, b |-> 7]) @@
  (<<175, 1, 205>> :> [L |-> 5495, a |-> 2015, b |-> -1695]) @@
  (<<179, 77, 65>> :> [L |-> 5501, a |-> 1186, b |-> 656]) @@
  (<<179, 221, 255>> :> [L |-> 8791, a |-> -294, b |-> -575]) @@
  (<<188, 220, 246>> :> [L |-> 8796, a |-> -227, b |-> -440]) @@
  (<<198, 224, 194>> :> [L |-> 8794, a |-> -384, b |-> 306]) @@
  (<<204, 8, 108>> :> [L |-> 5494, a |-> 2197, b |-> 2]) @@
  (<<205, 0, 108>> :> [L |-> 5494, a |-> 2227, b |-> 1]) @@
  (<<212, 16, 9>> :> [L |-> 5505, a |-> 1919, b |-> 1076]) @@
  (<<214, 0, 0>> :> [L |-> 5501, a |-> 1970, b |-> 1103]) @@
  (<<215, 215, 215>> :> [L |-> 8792, a |-> 0, b |-> 0]) @@
  (<<218, 219, 181>> :> [L |-> 8809, a |-> -161, b |-> 478]) @@
  (<<223, 222, 111>> :> [L |-> 8790, a |-> -423, b |-> 1271]) @@
  (<<225, 255, 221>> :> [L |-> 9695, a |-> -430, b |-> 337]) @@
  (<<227, 254, 223>> :> [L |-> 9693, a |-> -389, b |-> 309]) @@
  (<<228, 224, 0>> :> [L |-> 8810, a |-> -602, b |-> 1807]) @@
  (<<231, 205, 236>> :> [L |-> 8793, a |-> 391, b |-> -319]) @@
  (<<236, 247, 255>> :> [L |-> 9702, a |-> -81, b |-> -136]) @@
  (<<244, 195, 255>> :> [L |-> 8791, a |-> 738, b |-> -618]) @@
  (<<245, 202, 214>> :> [L |-> 8794, a |-> 509, b |-> -4]) @@
  (<<245, 245, 245>> :> [L |-> 9702, a |-> 0, b |-> 0]) @@
  (<<247, 204, 197>> :> [L |-> 8803, a |-> 437, b |-> 241]) @@
  (<<247, 248, 210>> :> [L |-> 9687, a |-> -157, b |-> 469]) @@
  (<<252, 240, 255>> :> [L |-> 9688, a |-> 179, b |-> -153]) @@
  (<<253, 253, 141>> :> [L |-> 9710, a |-> -432, b |-> 1277]) @@
  (<<255, 197, 213>> :> [L |-> 8795, a |-> 690, b |-> 4]) @@
  (<<255, 200, 191>> :> [L |-> 8790, a |-> 562, b |-> 313]) @@
  (<<255, 241, 245>> :> [L |-> 9702, a |-> 159, b |-> -5]) @@
  (<<255, 242, 239>> :> [L |-> 9705, a |-> 123, b |-> 80]) @@
  (<<255, 253, 109>> :> [L |-> 9689, a |-> -516, b |-> 1555])

\* hexToLch(hex) of a colour lchToHexSafe returned
RadHexToLch(hex) ==
  LET lab == (OklabOfRgb @@ OklabOfEncoded)[HexBytes(hex)]
  IN [L |-> lab.L, C |-> LabChroma(lab), H |-> HueOf(lab.a, lab.b)]

(***************************************************************************)
(* The algorithmic generator: bezierInterpolation                          *)
(***************************************************************************)
\* rgbToOklab(hexToRgb(c)) for the colours of OklabOfRgb and "#ffff00"
BezOklab(hex) ==
  IF HexBytes(hex) = <<255, 255, 0>> THEN [L |-> 9680, a |-> -714, b |-> 1986]
  ELSE OklabOfRgb[HexBytes(hex)]

\* the cubic Bernstein combination of p0..p3 at t
bezier3(p0, p1, p2, p3, t) ==
  IF t = NaN THEN NaN
  ELSE LET mt == LabScale - t
           w0 == MulDiv(MulDiv(mt, mt, LabScale), mt, LabScale)
           w1 == 3 * MulDiv(MulDiv(mt, mt, LabScale), t, LabScale)
           w2 == 3 * MulDiv(MulDiv(mt, t, LabScale), t, LabScale)
           w3 == MulDiv(MulDiv(t, t, LabScale), t, LabScale)
       IN (w0 * p0 + w1 * p1 + w2 * p2 + w3 * p3) \div LabScale

\* b: bezier3(p0.b, p0.b, p2.b, p3.b, t)
bezierLab(p0, p1, p2, p3, t) ==
  [L |-> bezier3(p0.L, p1.L, p2.L, p3.L, t),
   a |-> bezier3(p0.a, p1.a, p2.a, p3.a, t),
   b |-> bezier3(p0.b, p0.b, p2.b, p3.b, t)]

lerpLab(a, b, t) == [L |-> lerp(a.L, b.L, t), a |-> lerp(a.a, b.a, t), b |-> lerp(a.b, b.b, t)]

\* labToHex: rgbToHex(oklabToRgb(lab)); a NaN coordinate makes every channel NaN
labToHex(lab) ==
  IF NaN \in {lab.L, lab.a, lab.b} THEN NaNHex
  ELSE LET lin == LinearRgb(lab)
       IN <<"#">> \o HexPad2(EncodeByte(lin.r)) \o HexPad2(EncodeByte(lin.g))
                  \o HexPad2(EncodeByte(lin.b))

BezControls == 4

\* the control points of bezierInterpolation: the colours given, the last
\* repeated up to four, the two inner points drawn 0.35 of the way to the
\* midpoint of the outer ones
BezControlPoints(colors) ==
  LET given == [i \in 1..Min(BezControls, Len(colors)) |-> BezOklab(colors[i])]
      labs == [i \in 1..BezControls |-> given[Min(i, Len(given))]]
      mid == [L |-> (labs[1].L + labs[4].L) \div 2,
              a |-> (labs[1].a + labs[4].a) \div 2,
              b |-> (labs[1].b + labs[4].b) \div 2]
  IN <<labs[1], lerpLab(labs[2], mid, 3500), lerpLab(labs[3], mid, 3500), labs[4]>>

bezierInterpolation(colors, n) ==
  With(BezControlPoints(colors), LAMBDA labs :
    [j \in 1..n |-> labToHex(bezierLab(labs[1], labs[2], labs[3], labs[4], RampT(j - 1, n)))])

(***************************************************************************)
(* State                                                                   *)
(* The library is a set of pure functions; the state is the frame of the   *)
(* call in progress: its arguments, its position and its result.  Each     *)
(* specification below runs the calls of one function; the frames of the   *)
(* other functions stay idle.                                              *)
(***************************************************************************)
VARIABLES
  imgData,     \* generateImagePalettes: the RGBA byte buffer `data`
  imgK,        \* generateImagePalettes: the colour count `k`
  imgPc,       \* position inside generateImagePalettes
  imgSample,   \* the local { rgbs, labs } returned by samplePixels
  imgOut,      \* the entries of the returned object evaluated so far
  imgPrev,     \* the objects returned by the earlier calls on the same arguments
  selPalette,  \* select60_30_10: the argument `palette`
  selOpts,     \* select60_30_10: the thresholds `cfg`
  selResult,   \* select60_30_10: <<>> before the call, <<outcome>> after it
  radInput,    \* generateRadiumColors: the entries of `input`
  radOutput,   \* generateRadiumColors: <<>> before the call, <<entries>> after it
  gmLch,       \* lchToHexSafe: the argument `lch`
  gmPc,        \* lchToHexSafe: "start", "loop" or "done"
  gmLo,        \* lchToHexSafe: the local `lo`
  gmHi,        \* lchToHexSafe: the local `hi`
  gmI,         \* lchToHexSafe: the loop counter `i`
  gmOut,       \* lchToHexSafe: <<>> or <<the colour encoded, the string returned>>
  perInput,    \* generatePerceptualPalettes: the entries of `input`
  perX,        \* generatePerceptualPalettes: the count `x`
  perResult,   \* generatePerceptualPalettes: <<>> before the call, <<outcome>> after it
  dvSquare,    \* generateDataVisuals: the array `input.square`
  dvN,         \* generateDataVisuals: the count `n`
  dvResult,    \* generateDataVisuals: <<>> before the call, <<object returned>> after it
  ctCall,      \* adjustToWcagRatio, adjustToWcagRatioFromL: the function called and its arguments
  ctResult,    \* adjustToWcagRatio, adjustToWcagRatioFromL: <<>> or <<the colour returned>>
  algSquare,   \* generateAlgorithmic: the array `input.square`
  algN,        \* generateAlgorithmic: the count `n`
  algPrng,     \* the variable `s` of the generator that makePrng made last, <<>> if none
  algOut,      \* generateAlgorithmic: the objects returned by the calls so far
  harInput,    \* generateHarmonyPalettes: the entries of `input`
  harCount,    \* generateHarmonyPalettes: the argument `count`
  harResult,   \* generateHarmonyPalettes: <<>> before the call, <<object returned>> after it
  cfiEvents,   \* ColorFromImage: the number of prop changes, drops and pastes so far
  cfiUrl,      \* ColorFromImage: the prop imageUrl, <<>> if not given
  cfiPending,  \* ColorFromImage: the FileReader and Image loads in flight
  cfiImage,    \* ColorFromImage: the state imageGiven, <<>> for null
  cfiError,    \* ColorFromImage: the state loadError
  cfiCalls,    \* ColorFromImage: the calls of onColorsExtracted so far
  cfiLatest,   \* ColorFromImage: the number of the last event that asked for an image or a clear, -1 if none
  cwMode,      \* ColorWheel: the state mode
  cwDragging,  \* ColorWheel: the state dragging
  cwBaseHue,   \* ColorWheel: the state baseHue, in degrees
  cwEmitted,   \* ColorWheel: the palettes passed to onColorsChange so far
  cwLog,       \* ColorWheel: the mouse events so far, with the hue and the calls around each
  smpData,     \* samplePixels: the RGBA byte buffer `data`
  smpMax,      \* samplePixels: the argument `maxPixels`
  smpOut,      \* samplePixels: <<>> before the call, <<{ rgbs, labs }>> after it
  bezColors,   \* bezierInterpolation: the hex array `colors`
  bezN,        \* bezierInterpolation: the count `n`
  bezOut,      \* bezierInterpolation: <<>> before the call, <<array returned>> after it
  mcRgbs,      \* medianCutAlgo: the argument `rgbs`
  mcK,         \* medianCutAlgo: the argument `k`
  mcPc,        \* medianCutAlgo: "start", "loop" or "done"
  mcBoxes,     \* medianCutAlgo: the local `boxes`, each box the sequence of its pixels
  mcLast,      \* medianCutAlgo: <<>> or <<the last split: the sorted boxes, the box taken, its halves>>
  mcOut        \* medianCutAlgo: <<>> before the return, <<array returned>> after it

imgVars == <<imgData, imgK, imgPc, imgSample, imgOut, imgPrev>>
selVars == <<selPalette, selOpts, selResult>>
radVars == <<radInput, radOutput>>
gmVars == <<gmLch, gmPc, gmLo, gmHi, gmI, gmOut>>
perVars == <<perInput, perX, perResult>>
dvVars == <<dvSquare, dvN, dvResult>>
ctVars == <<ctCall, ctResult>>
algVars == <<algSquare, algN, algPrng, algOut>>
harVars == <<harInput, harCount, harResult>>
cfiVars == <<cfiEvents, cfiUrl, cfiPending, cfiImage, cfiError, cfiCalls, cfiLatest>>
cwVars == <<cwMode, cwDragging, cwBaseHue, cwEmitted, cwLog>>
smpVars == <<smpData, smpMax, smpOut>>
bezVars == <<bezColors, bezN, bezOut>>
mcVars == <<mcRgbs, mcK, mcPc, mcBoxes, mcLast, mcOut>>
vars == <<imgVars, selVars, radVars, gmVars, perVars, dvVars, ctVars, algVars, harVars, cfiVars, cwVars, smpVars, bezVars, mcVars>>

\* the frames of the functions that a specification does not call
ImgIdle ==
  /\ imgData = <<>>
  /\ imgK = 1
  /\ imgPc = "idle"
  /\ imgSample = [rgbs |-> <<>>, labs |-> <<>>]
  /\ imgOut = <<>>
  /\ imgPrev = <<>>

SelIdle ==
  /\ selPalette = JsUndefined
  /\ selOpts = DefaultSelectOptions
  /\ selResult = <<>>

RadIdle ==
  /\ radInput = <<>>
  /\ radOutput = <<>>

GmIdle ==
  /\ gmLch = [L |-> 0, C |-> 0, H |-> 0]
  /\ gmPc = "idle"
  /\ gmLo = 0
  /\ gmHi = 0
  /\ gmI = 0
  /\ gmOut = <<>>

PerIdle ==
  /\ perInput = <<>>
  /\ perX = 0
  /\ perResult = <<>>

DvIdle ==
  /\ dvSquare = <<>>
  /\ dvN = 0
  /\ dvResult = <<>>

CtIdle ==
  /\ ctCall = <<>>
  /\ ctResult = <<>>

AlgIdle ==
  /\ algSquare = <<>>
  /\ algN = 0
  /\ algPrng = <<>>
  /\ algOut = <<>>

HarIdle ==
  /\ harInput = <<>>
  /\ harCount = 0
  /\ harResult = <<>>

CfiIdle ==
  /\ cfiEvents = 0
  /\ cfiUrl = <<>>
  /\ cfiPending = {}
  /\ cfiImage = <<>>
  /\ cfiError = "idle"
  /\ cfiCalls = <<>>
  /\ cfiLatest = -1

CwIdle ==
  /\ cwMode = "idle"
  /\ cwDragging = FALSE
  /\ cwBaseHue = 0
  /\ cwEmitted = <<>>
  /\ cwLog = <<>>

SmpIdle ==
  /\ smpData = <<>>
  /\ smpMax = 0
  /\ smpOut = <<>>

BezIdle ==
  /\ bezColors = <<>>
  /\ bezN = 0
  /\ bezOut = <<>>

McIdle ==
  /\ mcRgbs = <<>>
  /\ mcK = 0
  /\ mcPc = "idle"
  /\ mcBoxes = <<>>
  /\ mcLast = <<>>
  /\ mcOut = <<>>

(***************************************************************************)
(* generateImagePalettes                                                   *)
(***************************************************************************)
AlgoOrder == <<"kmeans", "medianCut", "dominant", "vibrant", "muted", "octree",
               "colorMoments", "neuralQuant", "histogram", "deltaE">>
AlgoNames == {AlgoOrder[i] : i \in 1..Len(AlgoOrder)}

Black == <<"#", "0", "0", "0", "0", "0", "0">>

\* the pixels the modelled buffers are made of: r, g, b, alpha
PixelChoices ==
  {<<230, 57, 70, 255>>, <<228, 60, 72, 128>>, <<42, 157, 143, 255>>,
   <<150, 130, 120, 255>>, <<230, 57, 70, 127>>}

RECURSIVE Flatten(_)
Flatten(pixels) == IF pixels = <<>> THEN <<>> ELSE Head(pixels) \o Flatten(Tail(pixels))

Buffers == UNION {{Flatten(p) : p \in [1..n -> PixelChoices]} : n \in 0..MaxPixels}

ImgInit ==
  /\ SelIdle /\ RadIdle /\ GmIdle /\ PerIdle /\ DvIdle /\ CtIdle /\ AlgIdle /\ HarIdle /\ CfiIdle /\ CwIdle /\ SmpIdle /\ BezIdle /\ McIdle
  /\ imgData \in Buffers
  /\ imgK \in 1..MaxK
  /\ imgPc = "sample"
  /\ imgSample = [rgbs |-> <<>>, labs |-> <<>>]
  /\ imgOut = <<>>
  /\ imgPrev = <<>>

\* const { rgbs, labs } = samplePixels(pixelData); the early return for an
\* empty sample
ImgSample ==
  /\ imgPc = "sample"
  /\ LET sample == samplePixels(imgData, DefaultMaxPixels)
     IN /\ imgSample' = sample
        /\ IF Len(sample.labs) = 0
           THEN /\ imgOut' = [name \in AlgoNames |-> [i \in 1..imgK |-> Black]]
                /\ imgPc' = "done"
           ELSE /\ imgOut' = imgOut
                /\ imgPc' = "kmeans"
  /\ UNCHANGED <<imgData, imgK, imgPrev, selVars, radVars, gmVars, perVars, dvVars, ctVars, algVars, harVars, cfiVars, cwVars, smpVars, bezVars, mcVars>>

NextPc(name) ==
  LET i == CHOOSE i \in 1..Len(AlgoOrder) : AlgoOrder[i] = name
  IN IF i = Len(AlgoOrder) THEN "done" ELSE AlgoOrder[i + 1]

\* one entry of the returned object literal, evaluated by a call that leaves
\* the elements `sample` in the arrays rgbs and labs
ImgEntryWith(name, hexes, sample) ==
  /\ imgPc = name
  /\ imgOut' = (name :> hexes) @@ imgOut
  /\ imgPc' = NextPc(name)
  /\ imgSample' = sample
  /\ UNCHANGED <<imgData, imgK, imgPrev, selVars, radVars, gmVars, perVars, dvVars, ctVars, algVars, harVars, cfiVars, cwVars, smpVars, bezVars, mcVars>>

ImgEntry(name, hexes) == ImgEntryWith(name, hexes, imgSample)

ImgKMeans ==
  /\ imgPc = "kmeans"
  /\ \E labs \in kMeansCore(imgSample.labs, imgK, KMeansMaxIter) :
       ImgEntry("kmeans", MapSeq(labs, ImgLabToHex))

ImgMedianCut ==
  ImgEntryWith("medianCut", MapSeq(medianCutAlgo(imgSample.rgbs, imgK), ImgRgbToHex),
               [imgSample EXCEPT !.rgbs = RgbsAfterMedianCut(imgSample.rgbs, imgK)])

ImgDominant == ImgEntry("dominant", MapSeq(dominantAlgo(imgSample.rgbs, imgK), ImgRgbToHex))

ImgVibrant ==
  /\ imgPc = "vibrant"
  /\ \E labs \in vibrantAlgo(imgSample.labs, imgK) : ImgEntry("vibrant", MapSeq(labs, ImgLabToHex))

ImgMuted ==
  /\ imgPc = "muted"
  /\ \E labs \in mutedAlgo(imgSample.labs, imgK) : ImgEntry("muted", MapSeq(labs, ImgLabToHex))

ImgOctree == ImgEntry("octree", MapSeq(octreeAlgo(imgSample.rgbs, imgK), ImgRgbToHex))

ImgColorMoments ==
  ImgEntry("colorMoments", MapSeq(colorMomentsAlgo(imgSample.labs, imgK), ImgLabToHex))

ImgNeuralQuant ==
  /\ imgPc = "neuralQuant"
  /\ \E labs \in neuralQuantAlgo(imgSample.labs, imgK) :
       ImgEntryWith("neuralQuant", MapSeq(labs, ImgLabToHex),
                    [imgSample EXCEPT !.labs = Eager(LabsAfterNeuralQuant(imgSample.labs, imgK))])

ImgHistogram == ImgEntry("histogram", MapSeq(histogramAlgo(imgSample.labs, imgK), ImgLabToHex))

ImgDeltaE == ImgEntry("deltaE", MapSeq(deltaEAlgo(imgSample.labs, imgK), ImgLabToHex))

ImgNext ==
  \/ ImgSample
  \/ ImgKMeans
  \/ ImgMedianCut
  \/ ImgDominant
  \/ ImgVibrant
  \/ ImgMuted
  \/ ImgOctree
  \/ ImgColorMoments
  \/ ImgNeuralQuant
  \/ ImgHistogram
  \/ ImgDeltaE

SpecImage == ImgInit /\ [][ImgNext]_vars

\* a second call of generateImagePalettes with the same buffer and the same k
ImgCallAgain ==
  /\ imgPc = "done"
  /\ imgPrev = <<>>
  /\ imgPrev' = Append(imgPrev, imgOut)
  /\ imgOut' = <<>>
  /\ imgSample' = [rgbs |-> <<>>, labs |-> <<>>]
  /\ imgPc' = "sample"
  /\ UNCHANGED <<imgData, imgK, selVars, radVars, gmVars, perVars, dvVars, ctVars, algVars, harVars, cfiVars, cwVars, smpVars, bezVars, mcVars>>

ImgTwiceNext ==
  \/ ImgSample
  \/ ImgKMeans
  \/ ImgMedianCut
  \/ ImgDominant
  \/ ImgVibrant
  \/ ImgMuted
  \/ ImgOctree
  \/ ImgColorMoments
  \/ ImgNeuralQuant
  \/ ImgHistogram
  \/ ImgDeltaE
  \/ ImgCallAgain

SpecImageTwice == ImgInit /\ [][ImgTwiceNext]_vars

\* the buffer has a pixel with alpha >= 128
HasOpaquePixel(data) == \E p \in 1..(Len(data) \div 4) : data[4 * p] >= 128

\* C1: once generateImagePalettes has returned for a buffer with at least one
\* pixel of alpha >= 128 and k >= 1, the result has the ten algorithm keys
\* and every key's array has exactly k entries (kMeansCore's included), also
\* when the sample holds fewer than k pixels or fewer than k distinct colours
ImgLengths ==
  (imgPc = "done" /\ HasOpaquePixel(imgData)) =>
    /\ DOMAIN imgOut = AlgoNames
    /\ \A name \in AlgoNames : Len(imgOut[name]) = imgK

\* C1 witness: a call that returned for a sample of fewer pixels than k
ImgLengthsWitness ==
  /\ imgPc = "done"
  /\ HasOpaquePixel(imgData)
  /\ Len(imgSample.labs) < imgK
  /\ Len(imgOut["kmeans"]) = imgK

\* C2: once generateImagePalettes has returned for an empty buffer or a buffer
\* whose pixels all have alpha < 128, each of the ten keys holds exactly k
\* entries, all "#000000"
ImgAllBlack ==
  (imgPc = "done" /\ ~HasOpaquePixel(imgData)) =>
    /\ DOMAIN imgOut = AlgoNames
    /\ \A name \in AlgoNames :
         /\ Len(imgOut[name]) = imgK
         /\ \A i \in 1..imgK : imgOut[name][i] = Black

\* C2 witness: a call that returned for a non-empty buffer of transparent
\* pixels with k > 1
ImgAllBlackWitness ==
  /\ imgPc = "done"
  /\ Len(imgData) > 0
  /\ ~HasOpaquePixel(imgData)
  /\ imgK > 1
  /\ imgOut["deltaE"] = [i \in 1..imgK |-> Black]

\* C9: every entry evaluated by a second call of generateImagePalettes equals
\* the entry the first call returned for the same buffer and the same k
ImgSameOutput ==
  \A j \in 1..Len(imgPrev) : \A name \in DOMAIN imgOut : imgOut[name] = imgPrev[j][name]

(***************************************************************************)
(* select60_30_10                                                          *)
(***************************************************************************)
\* the elements the modelled palettes are made of: "#ffe", "#221", "#EE5533",
\* "b20", " #472 ", "#fd6", "#12345" and a number
RawChoices ==
  {Str(<<"#", "f", "f", "e">>), Str(<<"#", "2", "2", "1">>), Str(<<"#", "E", "E", "5", "5", "3", "3">>), Str(<<"b", "2", "0">>),
   Str(<<" ", "#", "4", "7", "2", " ">>), Str(<<"#", "f", "d", "6">>), Str(<<"#", "1", "2", "3", "4", "5">>), JsNumber}

Palettes ==
  {JsUndefined, Str(<<"#", "f", "f", "e">>)}
    \cup {Arr(items) : items \in UNION {[1..n -> RawChoices] : n \in 0..MaxColors}}

\* longer palettes with repeated entries: "#ffe", "#EE5533", "#ffe", "b20",
\* "#EE5533", " #472 ", and the same with the shade's colour repeated too
DuplicatePalettes ==
  LET ffe == Str(<<"#", "f", "f", "e">>)
      ee5533 == Str(<<"#", "E", "E", "5", "5", "3", "3">>)
      b20 == Str(<<"b", "2", "0">>)
      g472 == Str(<<" ", "#", "4", "7", "2", " ">>)
  IN {Arr(<<ffe, ee5533, ffe, b20, ee5533, g472>>),
      Arr(<<ffe, ee5533, b20, ffe, b20, ee5533, g472, g472>>)}

\* thresholds under which no colour is near-neutral, mid-light, same-hue or
\* far-hue
NarrowSelectOptions ==
  [neutralChromaMax |-> 0, mainLightnessMin |-> 9990, mainLightnessMax |-> 9999,
   shadeHueTolerance |-> 0, accentHueMin |-> 181 * HueScale,
   derivedDarkL |-> 1500, derivedDarkC |-> 0]

SelInit ==
  /\ ImgIdle /\ RadIdle /\ GmIdle /\ PerIdle /\ DvIdle /\ CtIdle /\ AlgIdle /\ HarIdle /\ CfiIdle /\ CwIdle /\ SmpIdle /\ BezIdle /\ McIdle
  /\ selPalette \in Palettes \cup DuplicatePalettes
  /\ selOpts \in {DefaultSelectOptions, NarrowSelectOptions}
  /\ selResult = <<>>

\* one call select60_30_10(palette, opts)
SelCall ==
  /\ selResult = <<>>
  /\ selResult' = <<select60_30_10(selPalette, selOpts)>>
  /\ UNCHANGED <<selPalette, selOpts, imgVars, radVars, gmVars, perVars, dvVars, ctVars, algVars, harVars, cfiVars, cwVars, smpVars, bezVars, mcVars>>

SelNext == SelCall

SpecSelect == SelInit /\ [][SelNext]_vars


(***************************************************************************)
(* generateRadiumColors                                                    *)
(***************************************************************************)
\* "neutralLight", "Tint-Shade", "triadic", "primary"
RadKeyChoices ==
  {<<"n", "e", "u", "t", "r", "a", "l", "L", "i", "g", "h", "t">>,
   <<"T", "i", "n", "t", "-", "S", "h", "a", "d", "e">>,
   <<"t", "r", "i", "a", "d", "i", "c">>,
   <<"p", "r", "i", "m", "a", "r", "y">>}

\* "#3498DB" and "red"
RadColorChoices == {Str(<<"#", "3", "4", "9", "8", "D", "B">>), Str(<<"r", "e", "d">>)}

RadArrays == UNION {[1..n -> RadColorChoices] : n \in 0..MaxColors}

\* the input is an object of at most MaxKeys properties with distinct keys
RadInit ==
  /\ ImgIdle /\ SelIdle /\ GmIdle /\ PerIdle /\ DvIdle /\ CtIdle /\ AlgIdle /\ HarIdle /\ CfiIdle /\ CwIdle /\ SmpIdle /\ BezIdle /\ McIdle
  /\ radInput \in UNION {{e \in [1..n -> [key : RadKeyChoices, value : RadArrays]] :
                             \A i, j \in 1..n : i # j => e[i].key # e[j].key} : n \in 0..MaxKeys}
  /\ radOutput = <<>>

\* one call generateRadiumColors(input)
RadCall ==
  /\ radOutput = <<>>
  /\ radOutput' = <<generateRadiumColors(radInput)>>
  /\ UNCHANGED <<radInput, imgVars, selVars, gmVars, perVars, dvVars, ctVars, algVars, harVars, cfiVars, cwVars, smpVars, bezVars, mcVars>>

RadNext == RadCall

SpecRadium == RadInit /\ [][RadNext]_vars


(***************************************************************************)
(* lchToHexSafe, one loop iteration per step                               *)
(***************************************************************************)
LchChoices ==
  [L : {500, 1000, 3000, 5500, 8800, 9700},
   C : {0, 500, 1347, 2200, 4000},
   H : {0, 2923, 10838, 14200, 24269, 32000}]

GmInit ==
  /\ ImgIdle /\ SelIdle /\ RadIdle /\ PerIdle /\ DvIdle /\ CtIdle /\ AlgIdle /\ HarIdle /\ CfiIdle /\ CwIdle /\ SmpIdle /\ BezIdle /\ McIdle
  /\ gmLch \in LchChoices
  /\ gmPc = "start"
  /\ gmLo = 0
  /\ gmHi = 0
  /\ gmI = 0
  /\ gmOut = <<>>

\* the fast path, or let lo = 0; let hi = lch.C
GmStart ==
  /\ gmPc = "start"
  /\ IF inGamut(gmLch)
     THEN /\ gmOut' = <<gmLch, RadLchToHex(gmLch)>>
          /\ gmPc' = "done"
          /\ UNCHANGED <<gmLo, gmHi, gmI>>
     ELSE /\ gmLo' = 0
          /\ gmHi' = gmLch.C
          /\ gmI' = 0
          /\ gmPc' = "loop"
          /\ UNCHANGED gmOut
  /\ UNCHANGED <<gmLch, imgVars, selVars, radVars, perVars, dvVars, ctVars, algVars, harVars, cfiVars, cwVars, smpVars, bezVars, mcVars>>

\* the loop body with the two assignments exchanged
GmStepRaisingOnFailure ==
  /\ gmPc = "loop"
  /\ gmI < BisectSteps
  /\ LET mid == (gmLo + gmHi) \div 2
     IN IF inGamut([gmLch EXCEPT !.C = mid])
        THEN gmHi' = mid /\ gmLo' = gmLo
        ELSE gmLo' = mid /\ gmHi' = gmHi
  /\ gmI' = gmI + 1
  /\ UNCHANGED <<gmLch, gmPc, gmOut, imgVars, selVars, radVars, perVars, dvVars, ctVars, algVars, harVars, cfiVars, cwVars, smpVars, bezVars, mcVars>>

\* one iteration of for (let i = 0; i < 24; i++)
GmStep ==
  /\ gmPc = "loop"
  /\ gmI < BisectSteps
  /\ LET mid == (gmLo + gmHi) \div 2
     IN IF inGamut([gmLch EXCEPT !.C = mid])
        THEN gmLo' = mid /\ gmHi' = gmHi
        ELSE gmHi' = mid /\ gmLo' = gmLo
  /\ gmI' = gmI + 1
  /\ UNCHANGED <<gmLch, gmPc, gmOut, imgVars, selVars, radVars, perVars, dvVars, ctVars, algVars, harVars, cfiVars, cwVars, smpVars, bezVars, mcVars>>

\* return rgbToHex(oklabToRgb(oklchToOklab({ ...lch, C: lo })))
GmFinish ==
  /\ gmPc = "loop"
  /\ gmI >= BisectSteps
  /\ gmOut' = <<[gmLch EXCEPT !.C = gmLo], RadLchToHex([gmLch EXCEPT !.C = gmLo])>>
  /\ gmPc' = "done"
  /\ UNCHANGED <<gmLch, gmLo, gmHi, gmI, imgVars, selVars, radVars, perVars, dvVars, ctVars, algVars, harVars, cfiVars, cwVars, smpVars, bezVars, mcVars>>

GmNext ==
  \/ GmStart
  \/ GmStep
  \/ GmFinish

SpecGamut == GmInit /\ [][GmNext]_vars


(***************************************************************************)
(* generatePerceptualPalettes                                              *)
(***************************************************************************)
\* "#3498db" and "#ee5533"
PerColorChoices ==
  {<<"#", "3", "4", "9", "8", "d", "b">>, <<"#", "e", "e", "5", "5", "3", "3">>}

\* the property values: a string, or an array of at most MaxColors colours
PerValues ==
  {Str(<<"x">>)} \cup {Arr(items) : items \in UNION {[1..n -> PerColorChoices] : n \in 0..MaxColors}}

\* the input is an object of at most MaxKeys properties "a", "b", ...
PerInit ==
  /\ ImgIdle /\ SelIdle /\ RadIdle /\ GmIdle /\ DvIdle /\ CtIdle /\ AlgIdle /\ HarIdle /\ CfiIdle /\ CwIdle /\ SmpIdle /\ BezIdle /\ McIdle
  /\ perInput \in UNION {{[i \in 1..n |-> [key |-> <<<<"a">>, <<"b">>, <<"c">>, <<"d">>>>[i],
                                             value |-> v[i]]] :
                             v \in [1..n -> PerValues]} : n \in 0..MaxKeys}
  /\ perX \in 0..MaxCount
  /\ perResult = <<>>

\* one call generatePerceptualPalettes(input, x)
PerCall ==
  /\ perResult = <<>>
  /\ perResult' = <<generatePerceptualPalettes(perInput, perX)>>
  /\ UNCHANGED <<perInput, perX, imgVars, selVars, radVars, gmVars, dvVars, ctVars, algVars, harVars, cfiVars, cwVars, smpVars, bezVars, mcVars>>

PerNext == PerCall

SpecPerceptual == PerInit /\ [][PerNext]_vars


(***************************************************************************)
(* generateDataVisuals                                                     *)
(***************************************************************************)
\* "#3498db", "#ee5533" and "#ffdd66"
DvColorChoices ==
  {<<"#", "3", "4", "9", "8", "d", "b">>, <<"#", "e", "e", "5", "5", "3", "3">>,
   <<"#", "f", "f", "d", "d", "6", "6">>}

DvInit ==
  /\ ImgIdle /\ SelIdle /\ RadIdle /\ GmIdle /\ PerIdle /\ CtIdle /\ AlgIdle /\ HarIdle /\ CfiIdle /\ CwIdle /\ SmpIdle /\ BezIdle /\ McIdle
  /\ dvSquare \in UNION {[1..n -> DvColorChoices] : n \in 0..MaxColors}
  /\ dvN \in 0..MaxCount
  /\ dvResult = <<>>

\* one call generateDataVisuals({ square: dvSquare }, n)
DvCall ==
  /\ dvResult = <<>>
  /\ dvResult' = <<generateDataVisuals(dvSquare, dvN)>>
  /\ UNCHANGED <<dvSquare, dvN, imgVars, selVars, radVars, gmVars, perVars, ctVars, algVars, harVars, cfiVars, cwVars, smpVars, bezVars, mcVars>>

DvNext == DvCall

SpecRamps == DvInit /\ [][DvNext]_vars


(***************************************************************************)
(* adjustToWcagRatio and adjustToWcagRatioFromL                            *)
(***************************************************************************)
\* references and colours beside those generateContrastPalettes passes:
\* white, black, two greys and a saturated red
CtColorChoices ==
  {white, black, [r |-> 5000, g |-> 5000, b |-> 5000], [r |-> 4000, g |-> 4000, b |-> 4000],
   [r |-> 9000, g |-> 1000, b |-> 1000]}

\* "#0000ff" and a count of slots that puts two light slots of highContrast
\* below the lightness at which that blue reaches 7:1 on black
CtBlue == <<"#", "0", "0", "0", "0", "f", "f">>
CtManySlots == 2 * MaxSlots

\* 3:1, 4.5:1, 7:1 and 15:1
CtRatioChoices == {30, 45, 70, 150}

\* the calls that generateContrastPalettes makes for x in 1..MaxSlots and, for
\* the blue, for CtManySlots, and
\* calls on the colours, references and ratios above
CtInit ==
  /\ ImgIdle /\ SelIdle /\ RadIdle /\ GmIdle /\ PerIdle /\ DvIdle /\ AlgIdle /\ HarIdle /\ CfiIdle /\ CwIdle /\ SmpIdle /\ BezIdle /\ McIdle
  /\ ctCall \in
       UNION {ContrastCalls(hex, x) : hex \in DvColorChoices, x \in 1..MaxSlots}
         \cup ContrastCalls(CtBlue, CtManySlots)
         \cup {WcagCall("adjustToWcagRatio", color, 0, 0, 0, reference, ratio, "none") :
                 color \in CtColorChoices, reference \in CtColorChoices, ratio \in CtRatioChoices}
         \cup {WcagCall("adjustToWcagRatioFromL", black, hue, sat, startL, reference, ratio, direction) :
                 hue \in {0, 20407}, sat \in {0, 7000}, startL \in {2800, 6500},
                 reference \in CtColorChoices, ratio \in {45, 70}, direction \in {"dark", "light"}}
  /\ ctResult = <<>>

\* one call adjustToWcagRatio(color, reference, targetRatio)
CtAdjust ==
  /\ ctResult = <<>>
  /\ ctCall.fn = "adjustToWcagRatio"
  /\ ctResult' = <<adjustToWcagRatio(ctCall.color, ctCall.reference, ctCall.targetRatio)>>
  /\ UNCHANGED <<ctCall, imgVars, selVars, radVars, gmVars, perVars, dvVars, algVars, harVars, cfiVars, cwVars, smpVars, bezVars, mcVars>>

\* one call adjustToWcagRatioFromL(hue, sat, startL, reference, targetRatio, direction)
CtAdjustFromL ==
  /\ ctResult = <<>>
  /\ ctCall.fn = "adjustToWcagRatioFromL"
  /\ ctResult' = <<adjustToWcagRatioFromL(ctCall.hue, ctCall.sat, ctCall.startL, ctCall.reference,
                                          ctCall.targetRatio, ctCall.direction)>>
  /\ UNCHANGED <<ctCall, imgVars, selVars, radVars, gmVars, perVars, dvVars, algVars, harVars, cfiVars, cwVars, smpVars, bezVars, mcVars>>

CtNext ==
  \/ CtAdjust
  \/ CtAdjustFromL

SpecContrast == CtInit /\ [][CtNext]_vars


(***************************************************************************)
(* the loops of the library: one call of generateImagePalettes, or one    *)
(* call of lchToHexSafe followed step by step                              *)
(***************************************************************************)
LoopsInit ==
  \/ ImgInit
  \/ GmInit

LoopsNext ==
  \/ ImgNext
  \/ GmNext

SpecLoops == LoopsInit /\ [][LoopsNext]_vars

(***************************************************************************)
(* generateAlgorithmic called repeatedly on the same arguments             *)
(***************************************************************************)
AlgColorChoices ==
  {<<"#", "3", "4", "9", "8", "d", "b">>, <<"#", "e", "e", "5", "5", "3", "3">>,
   <<"#", "f", "f", "d", "d", "6", "6">>, <<"#", "e", "6", "3", "9", "4", "6">>,
   <<"#", "2", "a", "9", "d", "8", "f">>, <<"#", "9", "6", "8", "2", "7", "8">>,
   <<"#", "4", "4", "7", "7", "2", "2">>, <<"#", "0", "0", "0", "0", "f", "f">>}

AlgInit ==
  /\ ImgIdle /\ SelIdle /\ RadIdle /\ GmIdle /\ PerIdle /\ DvIdle /\ CtIdle /\ HarIdle /\ CfiIdle /\ CwIdle /\ SmpIdle /\ BezIdle /\ McIdle
  /\ algSquare \in {<<>>} \cup {<<c>> : c \in AlgColorChoices}
  /\ algN \in 0..MaxCount
  /\ algPrng = <<>>
  /\ algOut = <<>>

\* one call generateAlgorithmic(input, n)
AlgCall ==
  /\ Len(algOut) < MaxCalls
  /\ \E call \in {generateAlgorithmic(algSquare, algN, algPrng)} :
       /\ algOut' = Append(algOut, call.value)
       /\ algPrng' = call.prng
  /\ UNCHANGED <<algSquare, algN, imgVars, selVars, radVars, gmVars, perVars, dvVars, ctVars, harVars, cfiVars, cwVars, smpVars, bezVars, mcVars>>

AlgNext == AlgCall

SpecAlgorithmic == AlgInit /\ [][AlgNext]_vars

(***************************************************************************)
(* generateHarmonyPalettes                                                 *)
(***************************************************************************)
HarInit ==
  /\ ImgIdle /\ SelIdle /\ RadIdle /\ GmIdle /\ PerIdle /\ DvIdle /\ CtIdle /\ AlgIdle /\ CfiIdle /\ CwIdle /\ SmpIdle /\ BezIdle /\ McIdle
  /\ harInput \in UNION {{[i \in 1..n |-> [key |-> <<<<"a">>, <<"b">>, <<"c">>, <<"d">>>>[i],
                                             value |-> v[i]]] :
                             v \in [1..n -> PerValues]} : n \in 0..MaxKeys}
  /\ harCount \in 0..MaxCount
  /\ harResult = <<>>

\* one call generateHarmonyPalettes(input, count)
HarCall ==
  /\ harResult = <<>>
  /\ harResult' = <<generateHarmonyPalettes(harInput, harCount)>>
  /\ UNCHANGED <<harInput, harCount, imgVars, selVars, radVars, gmVars, perVars, dvVars, ctVars, algVars, cfiVars, cwVars, smpVars, bezVars, mcVars>>

HarNext == HarCall

SpecHarmony == HarInit /\ [][HarNext]_vars

(***************************************************************************)
(* The ColorFromImage component: prop changes, drops, pastes, and the      *)
(* FileReader and Image events they lead to, in any order.  Drawing to the *)
(* canvas is left out.                                                     *)
(***************************************************************************)
\* the pixels of an image: one vivid pixel, one pixel of low chroma, one
\* transparent pixel, none (no intrinsic size)
Vivid == <<230, 57, 70, 255>>
Dull == <<150, 130, 120, 255>>
Transparent == <<230, 57, 70, 127>>

\* what a URL leads to: an image or not, served with CORS headers or not
CfiUrls ==
  {[ok |-> FALSE, cors |-> FALSE, data |-> <<>>],
   [ok |-> TRUE, cors |-> FALSE, data |-> Vivid],
   [ok |-> TRUE, cors |-> TRUE, data |-> Vivid],
   [ok |-> TRUE, cors |-> TRUE, data |-> Transparent]}

\* a File or Blob: its type, and whether its bytes decode as an image
CfiBlobs ==
  {[type |-> "image/png", ok |-> TRUE, data |-> d] : d \in {Vivid, Dull, Transparent, <<>>}}
    \cup {[type |-> "image/png", ok |-> FALSE, data |-> <<>>],
          [type |-> "text/plain", ok |-> TRUE, data |-> Vivid]}

\* the clipboard items of a paste event: type and getAsFile()
CfiClipboards ==
  {<<>>,
   <<[type |-> "text/plain", file |-> <<>>]>>,
   <<[type |-> "text/plain", file |-> <<>>],
     [type |-> "image/png", file |-> <<[type |-> "image/png", ok |-> TRUE, data |-> Vivid]>>]>>}

\* the HTMLImageElement of a finished load
CfiLoadedImage(source, tainted) ==
  [naturalWidth |-> Len(source.data) \div 4,
   naturalHeight |-> IF source.data = <<>> THEN 0 ELSE 1,
   data |-> source.data,
   tainted |-> tainted]

CfiInit ==
  /\ ImgIdle /\ SelIdle /\ RadIdle /\ GmIdle /\ PerIdle /\ DvIdle /\ CtIdle /\ AlgIdle /\ HarIdle /\ CwIdle /\ SmpIdle /\ BezIdle /\ McIdle
  /\ cfiEvents = 0
  /\ cfiUrl = <<>>
  /\ cfiPending = {}
  /\ cfiImage = <<>>
  /\ cfiError = ""
  /\ cfiCalls = <<>>
  /\ cfiLatest = -1

CfiOthers == <<imgVars, selVars, radVars, gmVars, perVars, dvVars, ctVars, algVars, harVars, cwVars, smpVars, bezVars, mcVars>>

\* loadFromBlob(blob): reader.readAsDataURL(blob)
loadFromBlob(blob) ==
  /\ cfiPending' = cfiPending \cup {[id |-> cfiEvents, via |-> "reader", source |-> blob]}
  /\ cfiLatest' = cfiEvents

\* the prop imageUrl changes to a non-empty URL: the effect starts the load
\* with crossOrigin = 'anonymous'
CfiSetImageUrl ==
  /\ cfiEvents < MaxEvents
  /\ \E url \in CfiUrls :
       /\ cfiUrl # <<url>>
       /\ cfiUrl' = <<url>>
       /\ cfiPending' = cfiPending \cup {[id |-> cfiEvents, via |-> "cors", source |-> url]}
  /\ cfiLatest' = cfiEvents
  /\ cfiError' = ""
  /\ cfiEvents' = cfiEvents + 1
  /\ UNCHANGED <<cfiImage, cfiCalls, CfiOthers>>

\* imgCors.onload
CfiCorsLoaded ==
  \E load \in cfiPending :
    /\ load.via = "cors"
    /\ load.source.ok /\ load.source.cors
    /\ \E palette \in extractColors(CfiLoadedImage(load.source, FALSE)) :
         /\ cfiCalls' = ReportColors(cfiCalls, palette, load)
         /\ cfiError' = IF Len(palette) > 0 THEN cfiError
                        ELSE "Image loaded but color extraction failed."
    /\ cfiImage' = <<load.source>>
    /\ cfiPending' = cfiPending \ {load}
    /\ UNCHANGED <<cfiEvents, cfiUrl, cfiLatest, CfiOthers>>

\* imgCors.onerror: the load is started again without crossOrigin
CfiCorsFailed ==
  \E load \in cfiPending :
    /\ load.via = "cors"
    /\ ~(load.source.ok /\ load.source.cors)
    /\ cfiPending' = (cfiPending \ {load}) \cup {[load EXCEPT !.via = "fallback"]}
    /\ UNCHANGED <<cfiEvents, cfiUrl, cfiLatest, cfiImage, cfiError, cfiCalls, CfiOthers>>

\* imgFallback.onload
CfiFallbackLoaded ==
  \E load \in cfiPending :
    /\ load.via = "fallback"
    /\ load.source.ok
    /\ cfiImage' = <<load.source>>
    /\ cfiError' = "Displayed but CORS blocked color extraction. Upload the file directly."
    /\ cfiPending' = cfiPending \ {load}
    /\ UNCHANGED <<cfiEvents, cfiUrl, cfiLatest, cfiCalls, CfiOthers>>

\* imgFallback.onerror
CfiFallbackFailed ==
  \E load \in cfiPending :
    /\ load.via = "fallback"
    /\ ~load.source.ok
    /\ cfiError' = "Failed to load image. Check the URL and try again."
    /\ cfiPending' = cfiPending \ {load}
    /\ UNCHANGED <<cfiEvents, cfiUrl, cfiLatest, cfiImage, cfiCalls, CfiOthers>>

\* the prop imageFile changes to a File
CfiSetImageFile ==
  /\ cfiEvents < MaxEvents
  /\ \E file \in CfiBlobs : loadFromBlob(file)
  /\ cfiError' = ""
  /\ cfiEvents' = cfiEvents + 1
  /\ UNCHANGED <<cfiUrl, cfiImage, cfiCalls, CfiOthers>>

\* handleDrop
CfiDrop ==
  /\ cfiEvents < MaxEvents
  /\ \E file \in CfiBlobs :
       IF file.type \in {"image/png"} THEN loadFromBlob(file) ELSE UNCHANGED <<cfiPending, cfiLatest>>
  /\ cfiEvents' = cfiEvents + 1
  /\ UNCHANGED <<cfiUrl, cfiImage, cfiError, cfiCalls, CfiOthers>>

\* onPaste: the first item of an image type that gives a file
CfiPaste ==
  /\ cfiEvents < MaxEvents
  /\ \E items \in CfiClipboards :
       LET images == {i \in 1..Len(items) : items[i].type \in {"image/png"} /\ items[i].file # <<>>}
       IN IF images # {} THEN loadFromBlob(items[SetMin(images)].file[1]) ELSE UNCHANGED <<cfiPending, cfiLatest>>
  /\ cfiEvents' = cfiEvents + 1
  /\ UNCHANGED <<cfiUrl, cfiImage, cfiError, cfiCalls, CfiOthers>>

\* reader.onload: img.src = reader.result
CfiReaderLoaded ==
  \E load \in cfiPending :
    /\ load.via = "reader"
    /\ cfiPending' = (cfiPending \ {load}) \cup {[load EXCEPT !.via = "blob"]}
    /\ UNCHANGED <<cfiEvents, cfiUrl, cfiLatest, cfiImage, cfiError, cfiCalls, CfiOthers>>

\* img.onload of loadFromBlob
CfiBlobLoaded ==
  \E load \in cfiPending :
    /\ load.via = "blob"
    /\ load.source.ok
    /\ \E palette \in extractColors(CfiLoadedImage(load.source, FALSE)) :
         cfiCalls' = ReportColors(cfiCalls, palette, load)
    /\ cfiImage' = <<load.source>>
    /\ cfiError' = ""
    /\ cfiPending' = cfiPending \ {load}
    /\ UNCHANGED <<cfiEvents, cfiUrl, cfiLatest, CfiOthers>>

\* the data URL does not decode: the image of loadFromBlob has no onerror
CfiBlobFailed ==
  \E load \in cfiPending :
    /\ load.via = "blob"
    /\ ~load.source.ok
    /\ cfiPending' = cfiPending \ {load}
    /\ UNCHANGED <<cfiEvents, cfiUrl, cfiLatest, cfiImage, cfiError, cfiCalls, CfiOthers>>

\* the prop clearTrigger changes to a new non-zero number
CfiClear ==
  /\ cfiEvents < MaxEvents
  /\ cfiImage' = <<>>
  /\ cfiError' = ""
  /\ cfiCalls' = Append(cfiCalls, [palette |-> <<>>, via |-> "clear", source |-> <<>>])
  /\ cfiLatest' = cfiEvents
  /\ cfiEvents' = cfiEvents + 1
  /\ UNCHANGED <<cfiUrl, cfiPending, CfiOthers>>

CfiNext ==
  \/ CfiSetImageUrl
  \/ CfiCorsLoaded
  \/ CfiCorsFailed
  \/ CfiFallbackLoaded
  \/ CfiFallbackFailed
  \/ CfiSetImageFile
  \/ CfiDrop
  \/ CfiPaste
  \/ CfiReaderLoaded
  \/ CfiBlobLoaded
  \/ CfiBlobFailed
  \/ CfiClear

SpecColorFromImage == CfiInit /\ [][CfiNext]_vars

\* ---------------------------------------------------------------------------
\* ColorWheel: the mouse handlers of the canvas, each followed by the render
\* and the effect that reports a changed palette
\* ---------------------------------------------------------------------------

CwModes == {"split", "monochromatic", "complementary"}
CwSaturation == 100
CwLightness == 50

\* the points of the canvas the mouse events carry
CwPoints == {<<225, 50>>, <<400, 225>>, <<100, 100>>}

CwOthers == <<imgVars, selVars, radVars, gmVars, perVars, dvVars, ctVars, algVars, harVars, cfiVars, smpVars, bezVars, mcVars>>

\* mount: dragging false, baseHue 0, the first palette reported
CwInit ==
  /\ ImgIdle /\ SelIdle /\ RadIdle /\ GmIdle /\ PerIdle /\ DvIdle /\ CtIdle /\ AlgIdle /\ HarIdle /\ CfiIdle /\ SmpIdle /\ BezIdle /\ McIdle
  /\ cwMode \in CwModes
  /\ cwDragging = FALSE
  /\ cwBaseHue = 0
  /\ cwEmitted = <<CwGeneratePalette(cwMode, 0, CwSaturation, CwLightness)>>
  /\ cwLog = <<>>

\* the render after a handler: onColorsChange(currentPalette) when the palette
\* was recomputed, that is when baseHue changed
CwRender(event, dragging, hue) ==
  LET emitted == IF hue = cwBaseHue THEN cwEmitted
                 ELSE Append(cwEmitted, CwGeneratePalette(cwMode, hue, CwSaturation, CwLightness))
  IN /\ Len(cwLog) < MaxMouse
     /\ cwDragging' = dragging
     /\ cwBaseHue' = hue
     /\ cwEmitted' = emitted
     /\ cwLog' = Append(cwLog, [event |-> event,
                                hueBefore |-> cwBaseHue, hueAfter |-> hue,
                                callsBefore |-> Len(cwEmitted), callsAfter |-> Len(emitted)])
     /\ UNCHANGED <<cwMode, CwOthers>>

CwMouseDown == CwRender("mousedown", TRUE, cwBaseHue)

CwMouseUp == CwRender("mouseup", FALSE, cwBaseHue)

CwMouseLeave == CwRender("mouseleave", FALSE, cwBaseHue)

CwMouseMove ==
  \E p \in CwPoints :
    CwRender("mousemove", cwDragging, handleMouseMove(cwDragging, cwBaseHue, p[1], p[2]))

CwClick ==
  \E p \in CwPoints : CwRender("click", cwDragging, handleClick(p[1], p[2]))

CwNext == CwMouseDown \/ CwMouseUp \/ CwMouseLeave \/ CwMouseMove \/ CwClick

SpecColorWheel == CwInit /\ [][CwNext]_vars

(***************************************************************************)
(* samplePixels                                                            *)
(***************************************************************************)
MaxBuffer == 6
MaxCap == 3

\* the pixels of the sampled buffers: one opaque, one below the alpha test
SmpPixels == {<<230, 57, 70, 255>>, <<42, 157, 143, 127>>}

SmpInit ==
  /\ ImgIdle /\ SelIdle /\ RadIdle /\ GmIdle /\ PerIdle /\ DvIdle /\ CtIdle /\ AlgIdle /\ HarIdle /\ CfiIdle /\ CwIdle /\ BezIdle /\ McIdle
  /\ smpData \in UNION {{Flatten(p) : p \in [1..n -> SmpPixels]} : n \in 0..MaxBuffer}
  /\ smpMax \in 1..MaxCap
  /\ smpOut = <<>>

SmpCall ==
  /\ smpOut = <<>>
  /\ smpOut' = <<samplePixels(smpData, smpMax)>>
  /\ UNCHANGED <<smpData, smpMax, imgVars, selVars, radVars, gmVars, perVars, dvVars, ctVars, algVars, harVars, cfiVars, cwVars, bezVars, mcVars>>

SmpNext == SmpCall

SpecSampling == SmpInit /\ [][SmpNext]_vars

(***************************************************************************)
(* medianCutAlgo, one action per round of its while loop                   *)
(***************************************************************************)
MaxBoxPixels == 5
MaxBoxes == 3

\* the pixels of the quantised arrays, in bytes: two near-equal dark greys,
\* a dull red and a magenta
McPixels == {<<10, 10, 10>>, <<10, 10, 12>>, <<50, 20, 20>>, <<200, 30, 250>>}

McRgb(p) == [r |-> p[1] * ChanPerByte, g |-> p[2] * ChanPerByte, b |-> p[3] * ChanPerByte]

McInit ==
  /\ ImgIdle /\ SelIdle /\ RadIdle /\ GmIdle /\ PerIdle /\ DvIdle /\ CtIdle /\ AlgIdle /\ HarIdle /\ CfiIdle /\ CwIdle /\ SmpIdle /\ BezIdle
  /\ mcRgbs \in UNION {{[i \in 1..n |-> McRgb(p[i])] : p \in [1..n -> McPixels]} : n \in 0..MaxBoxPixels}
  /\ mcK \in 1..MaxBoxes
  /\ mcPc = "start"
  /\ mcBoxes = <<>>
  /\ mcLast = <<>>
  /\ mcOut = <<>>

McOthers == <<imgVars, selVars, radVars, gmVars, perVars, dvVars, ctVars, algVars, harVars, cfiVars, cwVars, smpVars, bezVars>>

\* if (rgbs.length === 0) return padRgbToK([], k); const boxes = [{ pixels: [...rgbs] }]
McStart ==
  /\ mcPc = "start"
  /\ IF Len(mcRgbs) = 0
     THEN mcPc' = "done" /\ mcOut' = <<padRgbToK(<<>>, mcK)>> /\ mcBoxes' = mcBoxes
     ELSE mcPc' = "loop" /\ mcBoxes' = <<mcRgbs>> /\ mcOut' = mcOut
  /\ UNCHANGED <<mcRgbs, mcK, mcLast, McOthers>>

\* one round of the while loop that does not break
McSplit ==
  /\ mcPc = "loop"
  /\ Len(mcBoxes) < mcK
  /\ \E sorted \in {SortBoxes(mcBoxes)} :
       /\ Len(sorted[1]) >= 2
       /\ \E halves \in {splitBox(sorted[1])} :
            /\ mcBoxes' = Tail(sorted) \o halves
            /\ mcLast' = <<[boxes |-> sorted, taken |-> sorted[1], halves |-> halves]>>
  /\ UNCHANGED <<mcRgbs, mcK, mcPc, mcOut, McOthers>>

\* the end of the loop, by its condition or by the break after the sort, and
\* the return
McReturn ==
  /\ mcPc = "loop"
  /\ \E boxes \in {IF Len(mcBoxes) >= mcK THEN mcBoxes ELSE SortBoxes(mcBoxes)} :
       /\ Len(mcBoxes) < mcK => Len(boxes[1]) < 2
       /\ mcBoxes' = boxes
       /\ mcOut' = <<padRgbToK(MapSeq(boxes, BoxMean), mcK)>>
  /\ mcPc' = "done"
  /\ UNCHANGED <<mcRgbs, mcK, mcLast, McOthers>>

McNext == McStart \/ McSplit \/ McReturn

SpecMedianCut == McInit /\ [][McNext]_vars

(***************************************************************************)
(* bezierInterpolation                                                     *)
(***************************************************************************)
\* "#0065ff", "#ff0000", "#00ff00", "#ffff00": the defaults of
\* generateAlgorithmic
BezColorChoices ==
  {<<"#", "0", "0", "6", "5", "f", "f">>, <<"#", "f", "f", "0", "0", "0", "0">>,
   <<"#", "0", "0", "f", "f", "0", "0">>, <<"#", "f", "f", "f", "f", "0", "0">>}

BezInit ==
  /\ ImgIdle /\ SelIdle /\ RadIdle /\ GmIdle /\ PerIdle /\ DvIdle /\ CtIdle /\ AlgIdle /\ HarIdle /\ CfiIdle /\ CwIdle /\ SmpIdle /\ McIdle
  /\ bezColors \in UNION {[1..m -> BezColorChoices] : m \in 1..BezControls}
  /\ bezN \in 0..MaxCount
  /\ bezOut = <<>>

\* one call bezierInterpolation(colors, n)
BezCall ==
  /\ bezOut = <<>>
  /\ bezOut' = <<bezierInterpolation(bezColors, bezN)>>
  /\ UNCHANGED <<bezColors, bezN, imgVars, selVars, radVars, gmVars, perVars, dvVars, ctVars, algVars, harVars, cfiVars, cwVars, smpVars, mcVars>>

BezNext == BezCall

SpecBezier == BezInit /\ [][BezNext]_vars

(***************************************************************************)
(* Properties of generateRadiumColors                                      *)
(***************************************************************************)
\* C3: the map returned by generateRadiumColors has the keys of the input
\* map, in the same order, and for every key an array of the same length as
\* the key's input array, arrays of length 0 and 1 included
RadSameShape ==
  radOutput # <<>> =>
    LET out == radOutput[1]
    IN /\ Len(out) = Len(radInput)
       /\ \A e \in 1..Len(radInput) :
            /\ out[e].key = radInput[e].key
            /\ Len(out[e].value) = Len(radInput[e].value)

(***************************************************************************)
(* Properties of select60_30_10                                            *)
(***************************************************************************)
\* a 3- or 6-digit hex of either letter case with an optional '#'
IsHexString(s) ==
  LET h == IF s # <<>> /\ Head(s) = "#" THEN Tail(s) ELSE s
  IN /\ Len(h) \in {3, 6}
     /\ \A i \in 1..Len(h) : h[i] \in LowerHexChars \cup UpperHexChars

\* /^#[0-9a-f]{6}$/
IsNormalHex(h) == Len(h) = 7 /\ h[1] = "#" /\ IsLowerHex(Tail(h), 6)

ValidPalette(p) ==
  /\ p.t = "array"
  /\ Len(p.items) > 0
  /\ \A i \in 1..Len(p.items) : p.items[i].t = "string" /\ IsHexString(p.items[i].s)

RoleNames == {"neutralLight", "neutralDark", "mainColor", "mainColorShade", "accentColor"}

\* C4: for a non-empty array of valid hex strings select60_30_10 returns
\* without throwing, and the result has exactly the five roles neutralLight,
\* neutralDark, mainColor, mainColorShade and accentColor, each with a
\* "#rrggbb" colour
SelFiveRoles ==
  (selResult # <<>> /\ ValidPalette(selPalette)) =>
    LET r == selResult[1]
    IN /\ ~r.threw
       /\ DOMAIN r.value = RoleNames
       /\ \A n \in RoleNames : r.value[n].role = n /\ IsNormalHex(r.value[n].hex)

\* C4 witness: a call on a one-colour palette, under thresholds that leave
\* no near-neutral and no mid-lightness colour, whose dark neutral, shade and
\* accent are all derived
SelFiveRolesWitness ==
  /\ selResult # <<>>
  /\ ValidPalette(selPalette)
  /\ Len(selPalette.items) = 1
  /\ selOpts = NarrowSelectOptions
  /\ ~selResult[1].threw
  /\ selResult[1].value.neutralDark.derived
  /\ selResult[1].value.mainColorShade.derived
  /\ selResult[1].value.accentColor.derived

EmptyMessage ==
  [threw |-> TRUE, error |-> "TypeError",
   message |-> "palette must be a non-empty array of hex color strings"]

\* C5 as stated: a palette that is not an array or is empty raises the
\* 'non-empty array' TypeError; an element that is not a string raises the
\* TypeError about the element; a string element that is not a 3- or 6-digit
\* hex (optional '#', any letter case) raises a RangeError
SelRejectsAsStated ==
  selResult # <<>> =>
    LET r == selResult[1]
        p == selPalette
    IN IF p.t # "array" \/ Len(p.items) = 0 THEN r = EmptyMessage
       ELSE /\ (\E i \in 1..Len(p.items) : p.items[i].t # "string") =>
                 r.threw /\ r.error = "TypeError" /\ r.message = "Color must be a string"
            /\ (\E i \in 1..Len(p.items) :
                  p.items[i].t = "string" /\ ~IsHexString(p.items[i].s)) =>
                 r.threw /\ r.error = "RangeError"

\* C5: a palette that is not an array or is empty raises the 'non-empty
\* array' TypeError; otherwise the first element, in array order, that is not
\* a string or is a string which, once the surrounding white space is
\* trimmed, is not a 3- or 6-digit hex (optional '#', any letter case)
\* decides: the TypeError about the element for a non-string, a RangeError
\* for a string; no roles are returned in any of these cases, and a palette
\* without such an element is not rejected
SelRejects ==
  selResult # <<>> =>
    LET r == selResult[1]
        p == selPalette
    IN IF p.t # "array" \/ Len(p.items) = 0 THEN r = EmptyMessage
       ELSE LET bad == {i \in 1..Len(p.items) :
                          \/ p.items[i].t # "string"
                          \/ ~IsHexString(Trim(p.items[i].s))}
            IN IF bad = {} THEN ~r.threw
               ELSE /\ r.threw
                    /\ IF p.items[SetMin(bad)].t # "string"
                       THEN r.error = "TypeError" /\ r.message = "Color must be a string"
                       ELSE r.error = "RangeError"

\* C5 witness: a rejected call whose first element is accepted only after
\* trimming, whose second is a malformed string and whose third is a number
SelRejectsWitness ==
  /\ selResult # <<>>
  /\ selPalette.t = "array"
  /\ Len(selPalette.items) = 3
  /\ selPalette.items[1] = Str(<<" ", "#", "4", "7", "2", " ">>)
  /\ selPalette.items[2] = Str(<<"#", "1", "2", "3", "4", "5">>)
  /\ selPalette.items[3].t = "number"
  /\ selResult[1].threw
  /\ selResult[1].error = "RangeError"

(***************************************************************************)
(* Properties of lchToHexSafe                                              *)
(***************************************************************************)
\* the state part of C10
GmInv ==
  /\ gmPc = "loop" =>
       /\ ~inGamut(gmLch)
       /\ 0 <= gmLo /\ gmLo <= gmHi /\ gmHi <= gmLch.C
       /\ gmI <= BisectSteps
  /\ gmPc = "done" =>
       /\ gmOut[1].L = gmLch.L /\ gmOut[1].H = gmLch.H
       /\ 0 <= gmOut[1].C /\ gmOut[1].C <= gmLch.C
       /\ gmOut[2] = RadLchToHex(gmOut[1])
       /\ gmOut[2] = lchToHexSafe(gmLch)
       /\ IF inGamut(gmLch) THEN gmOut[1].C = gmLch.C /\ gmI = 0
          ELSE gmI = BisectSteps /\ gmOut[1].C = gmLo /\ gmLo <= gmHi

\* C10: lchToHexSafe encodes the input's L and H unchanged with a chroma in
\* [0, C0]; the chroma stays C0 when the unclamped conversion of the input
\* is in gamut, and otherwise is the lower bound of a bisection over [0, C0]
\* of exactly 24 steps that keeps lower bound <= upper bound and only ever
\* raises the lower bound to a chroma whose unclamped conversion is in gamut
GmChromaOnly ==
  /\ []GmInv
  /\ [][gmLo' # gmLo => (gmLo' > gmLo /\ inGamut([gmLch EXCEPT !.C = gmLo']))]_vars

\* C10 witness: a call that returned after the bisection with a chroma
\* strictly between 0 and C0
GmChromaOnlyWitness ==
  /\ gmPc = "done"
  /\ ~inGamut(gmLch)
  /\ gmI = BisectSteps
  /\ 0 < gmOut[1].C
  /\ gmOut[1].C < gmLch.C

(***************************************************************************)
(* Properties of generatePerceptualPalettes                                *)
(***************************************************************************)
\* the first array-valued property of the input, <<>> when there is none
PerFirstArray ==
  LET arrays == {e \in 1..Len(perInput) : perInput[e].value.t = "array"}
  IN IF arrays = {} THEN <<>> ELSE perInput[SetMin(arrays)].value.items

\* C6: for an input whose first array holds at least one colour and a count
\* x >= 1, x = 1 included, generatePerceptualPalettes returns without
\* throwing a map of exactly the ten interpolation-space keys, each an array
\* of exactly x colours, and a single input colour gives what the pair
\* (colour, white) gives
PerTenRamps ==
  (perResult # <<>> /\ Len(PerFirstArray) >= 1 /\ perX >= 1) =>
    LET r == perResult[1]
    IN /\ ~r.threw
       /\ DOMAIN r.value = PerTechniques
       /\ \A tech \in PerTechniques :
            /\ Len(r.value[tech]) = perX
            /\ \A i \in 1..perX : IsNormalHex(r.value[tech][i])
       /\ Len(PerFirstArray) = 1 =>
            r = generatePerceptualPalettes(
                  <<[key |-> <<"a">>,
                     value |-> Arr(<<PerFirstArray[1], <<"#", "f", "f", "f", "f", "f", "f">>>>)]>>, perX)

(***************************************************************************)
(* Properties of generateDataVisuals                                       *)
(***************************************************************************)
DvRampNames ==
  {"sequential", "diverging", "qualitative", "bivariate", "cyclical", "spectral", "stepped"}

\* C7: for a non-empty input and a count n >= 1, n = 1 included, every string
\* of every array returned by generateDataVisuals matches ^#[0-9a-f]{6}$, none
\* being built from a not-a-number ramp position i/(n-1)
DvAllHex ==
  (dvResult # <<>> /\ Len(dvSquare) >= 1 /\ dvN >= 1) =>
    \A name \in DvRampNames :
      \A i \in 1..Len(dvResult[1][name]) : IsNormalHex(dvResult[1][name][i])

(***************************************************************************)
(* Properties of adjustToWcagRatio and adjustToWcagRatioFromL              *)
(***************************************************************************)
\* C8: the colour returned by adjustToWcagRatio or adjustToWcagRatioFromL has
\* a WCAG contrast ratio against the reference of at least the target ratio,
\* or is pure black or pure white
CtMeetsOrExtreme ==
  ctResult # <<>> =>
    \/ MeetsRatio(ctResult[1], ctCall.reference, ctCall.targetRatio)
    \/ ctResult[1] \in {black, white}

\* C8 witness: a call of adjustToWcagRatio on a colour that fails the target
\* and for which no lightness of its hue passes, answered with an extreme
CtMeetsOrExtremeWitness ==
  /\ ctResult # <<>>
  /\ ctCall.fn = "adjustToWcagRatio"
  /\ ctCall.color \notin {black, white}
  /\ ~MeetsRatio(ctCall.color, ctCall.reference, ctCall.targetRatio)
  /\ ctResult[1] \in {black, white}
  /\ ~MeetsRatio(ctResult[1], ctCall.reference, ctCall.targetRatio)

(***************************************************************************)
(* Properties of the padding of generateImagePalettes                      *)
(***************************************************************************)
\* the colours that differ from lab in lightness only: the lightness on a
\* grid of 1/100 or at one of the steps 0.2 + (j / k) * 0.6 of padToK
LightnessVariants(lab, k) ==
  {ImgLabToHex([lab EXCEPT !.L = l]) :
     l \in {100 * j : j \in 0..100}
             \cup {ImgClamp01(2000 + (((j * LabScale) \div k) * 6000) \div LabScale) : j \in 0..k}}

\* C11: when the sample holds one pixel, so that an algorithm finds fewer
\* than k colours, an algorithm whose first entry is that pixel's colour
\* fills every further entry with that colour again or with a lightness
\* variant of it (same a and b, only L varied), whichever of the ten
\* algorithms it is
ImgPadsLastColour ==
  (imgPc = "done" /\ Len(imgSample.labs) = 1 /\ imgK > 1) =>
    \A name \in AlgoNames :
      imgOut[name][1] = ImgRgbToHex(imgSample.rgbs[1]) =>
        \A i \in 2..imgK :
          imgOut[name][i] \in {imgOut[name][1]} \cup LightnessVariants(imgSample.labs[1], imgK)

(***************************************************************************)
(* Properties of the validation of colour values                           *)
(***************************************************************************)
\* C12: a generator given a colour value that is not a valid hex string
\* fails with a validation error instead of returning a palette: a call of
\* generateRadiumColors that has returned its map was given valid hex
\* strings only
RadRejectsMalformed ==
  radOutput # <<>> =>
    \A e \in 1..Len(radInput) :
      \A i \in 1..Len(radInput[e].value) : MatchesHexRe(radInput[e].value[i])

LoopRounds(rgbs, labs, k) ==
  LET kmeans(maxIter) ==
        IF Len(labs) = 0 THEN {0}
        ELSE UNION {
               LET pixels == FilterIdx(labs, keep, 1)
                   pool == IF Len(pixels) >= k THEN pixels ELSE labs
               IN {KMeansLoop(pool, seeds, [i \in 1..Len(pool) |-> 1], k, 0, maxIter).iters :
                     seeds \in KMeansSeeds(pool, k)}
               : keep \in SubsampleKeeps(labs)}
      boxes == MedianCutLoop(<<rgbs>>, k)
      bins == HistBins(labs)
      smooth == HistSmooth(bins)
      isPeak(j) == /\ smooth[j].key > smooth[((j - 2 + BINS) % BINS) + 1].key
                   /\ smooth[j].key >= smooth[(j % BINS) + 1].key
                   /\ bins[j].count > 0
      peaks == SortDesc(FilterIdx(smooth, {j \in 1..BINS : isPeak(j)}, 1))
      top == Eager([i \in 1..Min(k, Len(peaks)) |-> peaks[i].idx])
      padded == HistPadLoop(top, SortDesc(smooth), bins, k, 0, 0)
      step == Max(1, Len(labs) \div DeltaEMaxCands)
      cands == FilterIdx(labs, {i \in 1..Len(labs) : (i - 1) % step = 0}, 1)
      selected == DeltaELoop(cands, <<DeltaESeed(cands)>>, k)
  IN [kMeansCore |-> kmeans(KMeansMaxIter),
      kMeansOklab |-> kmeans(OklabMaxIter),
      medianCut |-> IF Len(rgbs) = 0 THEN 0
                    ELSE Len(boxes) - 1 + (IF Len(boxes) < k THEN 1 ELSE 0),
      octree |-> OctReduce(OctInsertAll(rgbs, <<>>), k, 0).rounds,
      histPad |-> padded.rounds,
      histSynth |-> Len(HistSynthLoop(padded.top, k, 0)) - Len(padded.top),
      deltaE |-> IF Len(labs) = 0 THEN 0
                 ELSE Len(selected) - 1 + (IF Len(selected) < k THEN 1 ELSE 0)]

\* the bounds on which the statement and its amendment agree
LoopsWithinCaps(rounds, n, k) ==
  /\ \A r \in rounds.kMeansCore : r <= KMeansMaxIter
  /\ \A r \in rounds.kMeansOklab : r <= OklabMaxIter
  /\ Min(n, NeuralMaxPasses) <= n
  /\ rounds.medianCut <= k
  /\ rounds.octree <= n
  /\ rounds.histSynth <= k
  /\ rounds.deltaE <= k
  /\ gmI <= BisectSteps

RadKeysIndependent ==
  radOutput # <<>> =>
    \A e \in 1..Len(radInput) :
      LET key == radInput[e].key
          colors == radInput[e].value
      IN /\ radOutput[1][e].value = generateRadiumColors(<<radInput[e]>>)[1].value
         /\ \A other \in [1..Len(colors) -> RadColorChoices] :
              extractColorFromArray(other) = extractColorFromArray(colors) =>
                generateRadiumColors(<<[key |-> key, value |-> other]>>)[1].value
                  = radOutput[1][e].value

\* C15 witness: a call with two keys whose arrays have different first valid
\* colours has returned, and the second key's array is not the one its
\* name gives with the first key's colour
RadKeysIndependentWitness ==
  /\ radOutput # <<>>
  /\ Len(radInput) = 2
  /\ Len(radInput[2].value) >= 2
  /\ extractColorFromArray(radInput[1].value) # extractColorFromArray(radInput[2].value)
  /\ radOutput[1][2].value
       # generateRadiumColors(<<[key |-> radInput[2].key, value |-> radInput[1].value]>>)[1].value

\* C16: all calls of generateAlgorithmic on the same input and count return
\* the same random and noise palettes
AlgSameOutput == \A i, j \in 1..Len(algOut) : algOut[i] = algOut[j]

\* C16 witness: a second call on a base colour has returned, after a first
\* call in which the generators drew numbers: its random palette has two
\* different colours
AlgSameOutputWitness ==
  /\ Len(algOut) = 2
  /\ algSquare # <<>>
  /\ algPrng # <<>>
  /\ \E i, j \in 1..algN : algOut[1].random[i] # algOut[1].random[j]

\* the number of colours of every fixed harmony
HarFixedSizes ==
  [analogous |-> 3, complementary |-> 2, splitComplementary |-> 3, triadic |-> 3, tetradic |-> 4,
   square |-> 4, accentedAnalogous |-> 4, doubleSplitComplementary |-> 6, ambiguous |-> 3]

\* C17: for an input that holds a non-empty array and any count x,
\* generateHarmonyPalettes returns complementary with 2 colours, triadic
\* with 3, square with 4 and every other fixed harmony with its own number,
\* whatever x is, and the two monochromatic ramps with x colours
HarFixedSizesKept ==
  (harResult # <<>>
     /\ \E e \in 1..Len(harInput) : harInput[e].value.t = "array" /\ harInput[e].value.items # <<>>) =>
    LET output == harResult[1]
    IN /\ DOMAIN output = DOMAIN HarFixedSizes
                            \cup {"harmonyPalette", "monochromatic", "monochromaticTintShade"}
       /\ \A name \in DOMAIN HarFixedSizes : Len(output[name]) = HarFixedSizes[name]
       /\ Len(output.monochromatic) = harCount
       /\ Len(output.monochromaticTintShade) = harCount
       /\ \A name \in DOMAIN output : \A i \in 1..Len(output[name]) : IsNormalHex(output[name][i])

\* C17 witness: a call with a count that is the size of no fixed harmony
\* has returned its palettes for the colour of the second property, the
\* first one holding no colour
HarFixedSizesKeptWitness ==
  /\ harResult # <<>>
  /\ harCount = 1
  /\ Len(harInput) = 2
  /\ harInput[1].value = Arr(<<>>)
  /\ harResult[1] # <<>>
  /\ Len(harResult[1].complementary) = 2
  /\ harResult[1].complementary[1] # harResult[1].complementary[2]
  /\ Len(harResult[1].monochromatic) = 1

CwHeld(log, i) ==
  \E j \in 1..(i - 1) :
    /\ log[j].event = "mousedown"
    /\ \A n \in (j + 1)..(i - 1) : log[n].event \notin {"mouseup", "mouseleave"}

\* C19: over any sequence of mouse events the component is dragging exactly
\* from a mousedown until the next mouseup or mouseleave, and a mousemove that
\* comes while it is not dragging leaves the base hue and the reported
\* palettes as they were
CwMoveOnlyWhileDragging ==
  /\ cwDragging = CwHeld(cwLog, Len(cwLog) + 1)
  /\ \A i \in 1..Len(cwLog) :
       cwLog[i].event = "mousemove" /\ ~CwHeld(cwLog, i) =>
         /\ cwLog[i].hueAfter = cwLog[i].hueBefore
         /\ cwLog[i].callsAfter = cwLog[i].callsBefore

\* C19 witness: a mousemove while dragging changed the hue and reported a
\* palette, the mouse left, and a mousemove to another point changed nothing
CwMoveOnlyWhileDraggingWitness ==
  /\ Len(cwLog) = 4
  /\ cwLog[1].event = "mousedown"
  /\ cwLog[2].event = "mousemove" /\ cwLog[2].hueAfter = 315 /\ cwLog[2].callsAfter = 2
  /\ cwLog[3].event = "mouseleave"
  /\ cwLog[4].event = "mousemove" /\ cwLog[4].hueAfter = 315 /\ cwLog[4].callsAfter = 2
  /\ ~cwDragging
  /\ cwEmitted[2] = CwGeneratePalette(cwMode, 315, CwSaturation, CwLightness)

\* C20 (as stated): when lchToHexSafe has returned, the colour it returned,
\* decoded with hexToLch, has a hue within 2 degrees of the hue H it was
\* given, whenever the decoded colour has a hue at all (is not a grey)
GmHueKeptOnDecode ==
  gmPc = "done" =>
    LET back == RadHexToLch(gmOut[2])
    IN back.C > 0 => hueDist(back.H, gmLch.H) <= 2 * HueScale

\* the normalised colours of a valid palette, as a set of [hex, lch]
SelColours(p) ==
  {[hex |-> normaliseHex(p.items[i]).value, lch |-> hexToLch(normaliseHex(p.items[i]).value)] :
     i \in 1..Len(p.items)}

\* the colours of cs that no colour of cs exceeds in lightness, in chroma
SelLightest(cs) == {c \in cs : \A d \in cs : d.lch.L <= c.lch.L}
SelMostChromatic(cs) == {c \in cs : \A d \in cs : d.lch.C <= c.lch.C}

\* C21: for a valid non-empty palette, neutralLight is a palette colour of the
\* highest lightness among those whose chroma is below neutralChromaMax, or
\* among all when none is below it; mainColor is a palette colour of the
\* highest chroma among those whose lightness is in [mainLightnessMin,
\* mainLightnessMax], or among all when none is in the band
SelLightAndMain ==
  (selResult # <<>> /\ ValidPalette(selPalette)) =>
    LET px == SelColours(selPalette)
        near == {c \in px : c.lch.C < selOpts.neutralChromaMax}
        band == {c \in px : c.lch.L >= selOpts.mainLightnessMin /\ c.lch.L <= selOpts.mainLightnessMax}
        r == selResult[1].value
    IN /\ r.neutralLight.hex \in {c.hex : c \in SelLightest(IF near # {} THEN near ELSE px)}
       /\ r.mainColor.hex \in {c.hex : c \in SelMostChromatic(IF band # {} THEN band ELSE px)}

\* C21 witness: a three-colour palette under the default options whose
\* lightest colour is too chromatic to be neutralLight and lies outside the
\* band, so that neutralLight is the darker near-neutral and mainColor the
\* band's colour
SelLightAndMainWitness ==
  /\ selResult # <<>>
  /\ ValidPalette(selPalette)
  /\ selOpts = DefaultSelectOptions
  /\ Len(selPalette.items) = 3
  /\ selResult[1].value.neutralLight.hex = <<"#", "2", "2", "2", "2", "1", "1">>
  /\ selResult[1].value.mainColor.hex = <<"#", "e", "e", "5", "5", "3", "3">>
  /\ \E c \in SelColours(selPalette) : c.lch.L > 9000 /\ c.lch.C >= 600

\* C22: in every result of select60_30_10 neutralLight and mainColor are not
\* derived; neutralDark is derived exactly when no palette colour other than
\* neutralLight's hex is a dark near-neutral (L < 0.35, C < neutralChromaMax);
\* mainColorShade exactly when no palette colour is left after taking out the
\* hexes of neutralLight and mainColor; accentColor exactly when none is left
\* after taking out mainColorShade's hex too; a role that is not derived has
\* the hex of a palette colour, and a derived one has the hex synthesised
\* from mainColor
SelDerivedFlags ==
  (selResult # <<>> /\ ValidPalette(selPalette)) =>
    LET px == SelColours(selPalette)
        hexes == {c.hex : c \in px}
        r == selResult[1].value
        main == hexToLch(r.mainColor.hex)
        dark == {c \in px : /\ c.lch.C < selOpts.neutralChromaMax
                            /\ c.lch.L < 3500
                            /\ c.hex # r.neutralLight.hex}
        rem12 == hexes \ {r.neutralLight.hex, r.mainColor.hex}
        rem123 == rem12 \ {r.mainColorShade.hex}
    IN /\ ~r.neutralLight.derived /\ r.neutralLight.hex \in hexes
       /\ ~r.mainColor.derived /\ r.mainColor.hex \in hexes
       /\ r.neutralDark.derived = (dark = {})
       /\ r.mainColorShade.derived = (rem12 = {})
       /\ r.accentColor.derived = (rem123 = {})
       /\ IF r.neutralDark.derived
          THEN r.neutralDark.hex = lchToHex(selOpts.derivedDarkL, selOpts.derivedDarkC, main.H)
          ELSE r.neutralDark.hex \in {c.hex : c \in dark}
       /\ IF r.mainColorShade.derived
          THEN r.mainColorShade.hex = lchToHex(Max(500, main.L - 800), (main.C * 92) \div 100, main.H)
          ELSE r.mainColorShade.hex \in rem12
       /\ IF r.accentColor.derived
          THEN r.accentColor.hex = lchToHex(7200, Min(main.C, 1800), (main.H + 150 * HueScale) % (360 * HueScale))
          ELSE r.accentColor.hex \in rem123

\* C22 witness: a palette of three distinct colours with a dark near-neutral:
\* the dark neutral and the shade are chosen from the palette and the accent,
\* with nothing left, is synthesised
SelDerivedFlagsWitness ==
  /\ selResult # <<>>
  /\ ValidPalette(selPalette)
  /\ Len(selPalette.items) = 3
  /\ ~selResult[1].value.neutralDark.derived
  /\ ~selResult[1].value.mainColorShade.derived
  /\ selResult[1].value.accentColor.derived

\* the lightnesses 0, 0.01, ..., 1 at which the hue and saturation of a
\* colour are tried
CtLightnessGrid == {100 * k : k \in 0..100}

\* C23 (as stated), for the calls of adjustToWcagRatio whose passing
\* lightnesses all lie below half the input's lightness, or all lie above the
\* middle between the input's lightness and 1: a colour that meets the ratio
\* is returned unchanged, and when the colour fails while some lightness of
\* its hue and saturation other than 0 and 1 passes, the colour returned is
\* neither pure black nor pure white
CtFallbackOnlyWhenNonePasses ==
  (ctResult # <<>> /\ ctCall.fn = "adjustToWcagRatio") =>
    LET hsl == rgbToHsl(ctCall.color)
        Passes(l) == MeetsRatio(hslToRgb([hsl EXCEPT !.l = l]), ctCall.reference, ctCall.targetRatio)
        passing == {l \in CtLightnessGrid \ {0, LabScale} : Passes(l)}
    IN IF MeetsRatio(ctCall.color, ctCall.reference, ctCall.targetRatio)
       THEN ctResult[1] = ctCall.color
       ELSE (/\ passing # {}
             /\ \/ \A l \in passing : 2 * l < hsl.l
                \/ \A l \in passing : 2 * l > hsl.l + LabScale)
            => ctResult[1] \notin {black, white}

(***************************************************************************)
(* Properties of samplePixels                                              *)
(***************************************************************************)
\* C24: for a buffer of any length samplePixels keeps at most maxPixels
\* pixels
SmpAtMostCap ==
  smpOut # <<>> => Len(smpOut[1].rgbs) <= smpMax

(***************************************************************************)
(* Properties of the single-swatch path of generateRadiumColors            *)
(***************************************************************************)
RadNeutralLight == <<"n", "e", "u", "t", "r", "a", "l", "l", "i", "g", "h", "t">>

\* C25: for a key with one swatch generateRadiumColors returns the colour of
\* the key's base colour under the transform of the first entry of
\* SEMANTIC_TRANSFORMS, in declared order, whose pattern matches the key
\* lower-cased and stripped to its letters; a key whose normalised name
\* contains "neutrallight" gets the neutral-light target (L 0.93), never the
\* generic neutral or the "light" suffix target; a key matching no entry
\* gets L 0.55 with a chroma of at least 0.18
RadFirstMatch ==
  radOutput # <<>> =>
    \A e \in 1..Len(radInput) :
      Len(radInput[e].value) = 1 =>
        LET k == NormaliseKey(radInput[e].key)
            lch == hexToLch(extractColorFromArray(radInput[e].value))
            out == radOutput[1][e].value
        IN /\ \/ \E i \in 1..SemanticCount :
                   /\ SemanticMatch(i, k)
                   /\ \A j \in 1..(i - 1) : ~SemanticMatch(j, k)
                   /\ out = <<lchToHexSafe(SemanticApply(i, lch))>>
              \/ /\ \A i \in 1..SemanticCount : ~SemanticMatch(i, k)
                 /\ out = <<lchToHexSafe([L |-> 5500, C |-> Max(lch.C, 1800), H |-> lch.H])>>
           /\ Includes(k, RadNeutralLight) =>
                /\ out = <<lchToHexSafe([L |-> 9300, C |-> Min((lch.C * 8) \div 100, 150),
                                         H |-> lch.H])>>
                /\ out # <<lchToHexSafe(SemanticApply(3, lch))>>
                /\ out # <<lchToHexSafe(SemanticApply(6, lch))>>

\* C25 witness: a call has returned whose first key, "neutralLight", matches
\* the neutral-light, the generic neutral and the "light" entries and whose
\* second key, "triadic", matches no entry, each with one swatch
RadFirstMatchWitness ==
  /\ radOutput # <<>>
  /\ Len(radInput) = 2
  /\ Len(radInput[1].value) = 1 /\ Len(radInput[2].value) = 1
  /\ {i \in 1..SemanticCount : SemanticMatch(i, NormaliseKey(radInput[1].key))} = {1, 3, 6}
  /\ radInput[1].key # NormaliseKey(radInput[1].key)
  /\ {i \in 1..SemanticCount : SemanticMatch(i, NormaliseKey(radInput[2].key))} = {}

(***************************************************************************)
(* Properties of medianCutAlgo                                             *)
(***************************************************************************)
McChannels == {"r", "g", "b"}

\* the range of channel ch over the pixels of a non-empty box
McExtent(box, ch) ==
  LET vals == {box[i][ch] : i \in 1..Len(box)}
  IN (CHOOSE v \in vals : \A w \in vals : v >= w) - (CHOOSE v \in vals : \A w \in vals : v <= w)

\* the largest channel range of a box
McWidest(box) ==
  CHOOSE e \in {McExtent(box, ch) : ch \in McChannels} :
    \A ch \in McChannels : e >= McExtent(box, ch)

McBag(box) == [p \in {box[i] : i \in 1..Len(box)} |-> Cardinality({i \in 1..Len(box) : box[i] = p})]

\* the last split cut the box taken at its median pixel along one of its
\* widest channels: the lower floor(n / 2) pixels on that channel went to
\* the first half, the others to the second
McCutAtMedian ==
  LET s == mcLast[1]
      n == Len(s.taken)
  IN /\ n >= 2
     /\ Len(s.halves[1]) = n \div 2
     /\ McBag(s.halves[1] \o s.halves[2]) = McBag(s.taken)
     /\ \E ch \in McChannels :
          /\ McExtent(s.taken, ch) = McWidest(s.taken)
          /\ \A i \in 1..Len(s.halves[1]), j \in 1..Len(s.halves[2]) :
               s.halves[1][i][ch] <= s.halves[2][j][ch]

\* C26 as stated: every split takes the box with the largest channel range
\* among the current boxes, and cuts it at its median pixel along its widest
\* channel; a box of fewer than 2 pixels is never split
McSplitsLargestExtent ==
  mcLast # <<>> =>
    /\ \A i \in 1..Len(mcLast[1].boxes) :
         McWidest(mcLast[1].boxes[i]) <= McWidest(mcLast[1].taken)
    /\ McCutAtMedian

\* C26: every split takes a box holding the most pixels among the current
\* boxes (the first such box of the array), whatever its channel ranges, and
\* cuts it at its median pixel along its widest channel; a box of fewer than
\* 2 pixels is never split, and the array returned is the one of
\* medianCutAlgo
McSplitsMostPixels ==
  /\ mcLast # <<>> =>
       /\ \A i \in 1..Len(mcLast[1].boxes) :
            Len(mcLast[1].boxes[i]) <= Len(mcLast[1].taken)
       /\ McCutAtMedian
  /\ mcOut # <<>> => mcOut[1] = medianCutAlgo(mcRgbs, mcK)

\* C26 witness: a split chose between two boxes and took the one with the
\* smaller channel range
McSplitsMostPixelsWitness ==
  /\ mcLast # <<>>
  /\ Len(mcLast[1].boxes) = 2
  /\ Len(mcLast[1].taken) >= 2
  /\ McWidest(mcLast[1].taken) < McWidest(mcLast[1].boxes[2])
  /\ mcOut # <<>>

(***************************************************************************)
(* Properties of the highContrast slots                                    *)
(***************************************************************************)
\* the calls generateContrastPalettes(input, x) makes for highContrast
CtHighContrastCalls(hex, x) ==
  {c \in ContrastCalls(hex, x) : c.fn = "adjustToWcagRatioFromL"}

\* the palettes of the modelled calls: base colour and count of slots
CtPalettes == (DvColorChoices \X (1..MaxSlots)) \cup {<<CtBlue, CtManySlots>>}

\* C27: the search of a highContrast slot returns a passing colour, and no
\* other slot of the same palette that searches in the same direction from
\* another starting lightness returns the same colour: the slots are not
\* collapsed onto one shared passing value
CtSlotsKeptApart ==
  (ctResult # <<>> /\ ctCall.fn = "adjustToWcagRatioFromL") =>
    \A p \in CtPalettes :
      ctCall \in CtHighContrastCalls(p[1], p[2]) =>
        /\ MeetsRatio(ctResult[1], ctCall.reference, ctCall.targetRatio)
        /\ \A other \in CtHighContrastCalls(p[1], p[2]) :
             (other.direction = ctCall.direction /\ other.startL # ctCall.startL) =>
               CtRgbToHex(adjustToWcagRatioFromL(other.hue, other.sat, other.startL, other.reference,
                                                 other.targetRatio, other.direction))
                 # CtRgbToHex(ctResult[1])

(***************************************************************************)
(* Properties of bezierInterpolation                                       *)
(***************************************************************************)
\* C28: every colour of the bezier palette is the point of one cubic Bezier
\* curve through the four control points: each of L, a and b is the cubic
\* Bernstein combination of that channel's values at P0, P1, P2 and P3
BezPerChannel ==
  (bezOut # <<>> /\ bezN >= 2) =>
    LET P == BezControlPoints(bezColors)
    IN \A j \in 1..bezN :
         LET t == RampT(j - 1, bezN)
         IN bezOut[1][j] = labToHex([L |-> bezier3(P[1].L, P[2].L, P[3].L, P[4].L, t),
                                     a |-> bezier3(P[1].a, P[2].a, P[3].a, P[4].a, t),
                                     b |-> bezier3(P[1].b, P[2].b, P[3].b, P[4].b, t)])

(***************************************************************************)
(* Properties of the loads of ColorFromImage                               *)
(***************************************************************************)
\* C29: a load that was superseded (a later imageUrl, file, drop, paste or
\* clear came while it was in flight) changes neither the displayed image
\* nor the calls of onColorsExtracted when it completes: the image of a
\* superseded load is never displayed, no image comes back after a clear,
\* and the palette of a superseded image is never passed on
CfiLatestWins ==
  [][\A load \in cfiPending \ cfiPending' :
       load.id # cfiLatest => (cfiImage' = cfiImage /\ cfiCalls' = cfiCalls)]_vars

(***************************************************************************)
(* Properties of the roles chosen from the palette                         *)
(***************************************************************************)
\* C30: in every result of select60_30_10 a mainColorShade chosen from the
\* palette differs in hex from neutralLight and mainColor, and an
\* accentColor chosen from the palette differs in hex from neutralLight,
\* mainColor and mainColorShade, also when the palette repeats entries
SelChosenDistinct ==
  (selResult # <<>> /\ ~selResult[1].threw) =>
    LET v == selResult[1].value
    IN /\ ~v.mainColorShade.derived =>
            v.mainColorShade.hex \notin {v.neutralLight.hex, v.mainColor.hex}
       /\ ~v.accentColor.derived =>
            v.accentColor.hex \notin {v.neutralLight.hex, v.mainColor.hex, v.mainColorShade.hex}

\* C30 witness: a palette that repeats the colours taken as neutralLight and
\* mainColor, in which the shade and the accent are both chosen from the
\* palette
SelChosenDistinctWitness ==
  /\ selResult # <<>>
  /\ ~selResult[1].threw
  /\ selPalette \in DuplicatePalettes
  /\ Len(selPalette.items) = 6
  /\ selPalette.items[1] = selPalette.items[3]
  /\ selPalette.items[2] = selPalette.items[5]
  /\ ~selResult[1].value.mainColorShade.derived
  /\ ~selResult[1].value.accentColor.derived
  /\ selResult[1].value.neutralLight.hex # selResult[1].value.mainColor.hex
====
